---- MODULE Spec2Model ----
(***************************************************************************)
(* State-machine model of the SwitchBot device handlers (lock.ts, hub.ts)  *)
(* of homebridge-switchbot: the debounced change-push pipeline of the      *)
(* lock, the timer-driven status refreshes, and the transport selection    *)
(* and advertisement check of refreshStatus for the lock and the hub.      *)
(*                                                                         *)
(* Time is kept by count-down timers in milliseconds.  Tick advances time  *)
(* by TimeStep; a timer whose remaining time is <= 0 is due, and time does *)
(* not advance while a timer is due.  Every await of a push on a transport *)
(* is a separate step, so other handlers interleave with it.  A status     *)
(* refresh is one step, taken when its result is applied.                  *)
(*                                                                         *)
(* Spec is the device with its timers and change requests, FairSpec adds   *)
(* that timers fire and transport calls settle, and StatusSpec is the      *)
(* status side alone (refreshStatus calls and webhook events), where the   *)
(* history records the transport and the advertisement of each call.       *)
(* RetrySpec is the lock with a radio under every retry budget, LatchSpec  *)
(* the lock with its latch button, ClassifierSpec the statusCode method of *)
(* irdevice.ts called with status codes, and VersionSpec the places that   *)
(* write the firmware version.  IrSpec is the Others accessory of         *)
(* other.ts, RegistrySpec a cloud lock with the handlers of both routing   *)
(* tables, and InterleaveSpec the same lock with every awaited             *)
(* characteristic write of a handler as a step of its own.  Strings that   *)
(* are taken apart (versions) are sequences of one-character strings.      *)
(***************************************************************************)
EXTENDS Integers, Sequences, FiniteSets, Bags, TLC

(* ------------------------------ bounds --------------------------------- *)
\* milliseconds per Tick
TimeStep == 5000
\* user requests (LockTargetStateSet calls) in one behaviour
MaxRequests == 2
\* the largest retry budget (device.maxRetries) of RetrySpec
MaxRetries == 3
\* the most commands an irdevice sends
MaxIrRequests == 2
\* event handlers of one device that have not finished
MaxHandling == 2
\* the largest status code handed to irdevice statusCode
MaxStatusCode == 501
\* the longest firmware version string drawn character by character
MaxVersionLen == 3

(* ------------------------- program constants --------------------------- *)
SECURED == 1
UNSECURED == 0
\* a context entry / characteristic value that was never written
Undefined == 2
\* the value apiError writes into a characteristic
ErrorMarker == 3
PostPushRefreshDelay == 15000
\* OnSet: the delay of the setTimeout that switches the latch button off
LatchResetDelay == 500
\* the retry budget when neither the device nor the platform configures one
DefaultMaxRetries == 2
\* the delay between retries (ms) when neither the device nor the platform sets one
DefaultDelayBetweenRetries == 3000
SuccessCodes == {100, 200}
\* node-switchbot SwitchBotBLEModel / SwitchBotBLEModelName
BLEModelLock == "o"
BLEModelLockPro == "$"
BLEModelHub2 == "v"
BLEModelNameLock == "WoSmartLock"
BLEModelNameLockPro == "WoSmartLockPro"
BLEModelNameHub2 == "WoHub2"

ConnectionTypes == {"BLE", "OpenAPI", "BLE/OpenAPI", "Disabled"}

VARIABLES
  family,               \* "Lock" or "Hub": the device class of this accessory
  device,               \* device + platform configuration, fixed at construction
  lockUpdateInProgress, \* Lock.lockUpdateInProgress
  LockMechanism,        \* Lock.LockMechanism: LockTargetState, LockCurrentState
  Battery,              \* Lock.Battery and Lock.ContactSensor: BatteryLevel, StatusLowBattery, ContactSensorState
  context,              \* accessory.context: last values written by updateCharacteristic
  hk,                   \* values of the HomeKit characteristics (Service.updateCharacteristic)
  debounceTimer,        \* debounceTime of doLockUpdate: <<>> idle, <<ms>> armed
  updateInterval,       \* the refresh interval: [remaining, skipping (skipWhile not yet passed)]
  postPush,             \* the live interval(15000) subscriptions made by pushChanges (a bag)
  runs,                 \* the pushChanges runs that wait for a transport (a bag)
  initialRefresh,       \* the constructor's refreshStatus() call is not answered yet
  HumiditySensor,       \* Hub.HumiditySensor: CurrentRelativeHumidity
  Switch,               \* Lock.Switch: On, the field the onGet handler of the latch returns
  latch,                \* the openAPIpushChanges(true) calls of OnSet and their timeouts (a bag)
  irdevice,             \* an irdevice: deviceId, hubDeviceId and the lines statusCode logged
  firmware,             \* FirmwareRevision characteristic, accessory.context.version, history
  handlers,             \* platform.webhookEventHandler / bleEventHandler hold this device
  failures,             \* exceptions of cloud calls: one was not logged, one left its caller
  handling,             \* event handlers that have parsed and await updateCharacteristic calls (a bag)
  hist                  \* history of the run, read by the properties only

vars == <<family, device, lockUpdateInProgress, LockMechanism, Battery, context, hk,
          debounceTimer, updateInterval, postPush, runs, initialRefresh, HumiditySensor,
          Switch, latch, irdevice, firmware, handlers, failures, handling, hist>>

(* --------------------------- configuration ----------------------------- *)
\* deviceBase: BLE / OpenAPI flags derived from device.connectionType
BLE == device.connectionType \in {"BLE", "BLE/OpenAPI"}
OpenAPI == device.connectionType \in {"OpenAPI", "BLE/OpenAPI"}
\* platform.config.credentials?.token
HasToken == device.token
\* this.devicePushRate * 1000 and this.deviceRefreshRate * 1000
DebounceMs == device.pushRate * 1000
RefreshMs == device.refreshRate * 1000
\* variant of maxRetryBLE: one attempt more than the budget
maxRetryBLE_OneMore == device.maxRetries + 1

\* deviceBase.maxRetryBLE(): the retry budget of the device
maxRetryBLE == device.maxRetries

(* ------------------------------ helpers -------------------------------- *)
\* JavaScript truthiness of a number / of a string
TruthyNum(n) == n # 0
TruthyStr(s) == s # ""

Min(a, b) == IF a < b THEN a ELSE b

\* device.connectionType, enableCloudService, credentials.token, device.webhook,
\* device.offline, pushRate and refreshRate (seconds), maxRetries
AllConfigs ==
  [connectionType : ConnectionTypes, enableCloudService : BOOLEAN, token : BOOLEAN,
   webhook : BOOLEAN, offline : BOOLEAN, pushRate : {10}, refreshRate : {5},
   maxRetries : 1..MaxRetries]

\* pushChanges / refreshStatus, first branch: cloud is a transport but the service is off
CloudDisabled == ~device.enableCloudService /\ OpenAPI

\* BLEPushConnection / BLERefreshConnection: the cloud fallback condition
FallbackToCloud == HasToken /\ device.connectionType = "BLE/OpenAPI"

(* ------------------------ lock: parse and apply ------------------------ *)
\* BLEparseStatus: serviceData.status
BLEparseStatus(sd) ==
  [LockCurrentState |-> IF sd.status = "locked" THEN SECURED ELSE UNSECURED,
   LockTargetState  |-> IF sd.status = "locked" THEN SECURED ELSE UNSECURED]

\* openAPIparseStatus: deviceStatus.lockState
openAPIparseStatus(body) ==
  [LockCurrentState |-> IF body.lockState = "locked" THEN SECURED ELSE UNSECURED,
   LockTargetState  |-> IF body.lockState = "locked" THEN SECURED ELSE UNSECURED]

\* variant of parseStatusWebhook: lockState is compared with the spelling of the cloud
parseStatusWebhook_LowerCase(ctx) ==
  [LockCurrentState |-> IF ctx.lockState = "locked" THEN SECURED ELSE UNSECURED,
   LockTargetState  |-> IF ctx.lockState = "locked" THEN SECURED ELSE UNSECURED]

\* parseStatusWebhook: webhookContext.lockState
parseStatusWebhook(ctx) ==
  [LockCurrentState |-> IF ctx.lockState = "LOCKED" THEN SECURED ELSE UNSECURED,
   LockTargetState  |-> IF ctx.lockState = "LOCKED" THEN SECURED ELSE UNSECURED]

\* BLEparseStatus: ContactSensorState from serviceData.door_open, and the battery
\* fields when the advertisement has a battery value (<<>> when it has none).
\* StatusLowBattery is 1 (BATTERY_LEVEL_LOW) or 0, ContactSensorState 1
\* (CONTACT_NOT_DETECTED) or 0
BLEparseBattery(sd) ==
  [BatteryLevel |-> IF sd.battery # <<>> THEN sd.battery[1] ELSE Battery.BatteryLevel,
   StatusLowBattery |-> IF sd.battery # <<>>
                          THEN (IF sd.battery[1] < 10 THEN 1 ELSE 0)
                          ELSE Battery.StatusLowBattery,
   ContactSensorState |-> IF sd.door_open THEN 1 ELSE 0]

\* variant of openAPIparseStatus: a battery of 10 counts as low
openAPIparseBattery_AtMost(body) ==
  [BatteryLevel |-> body.battery,
   StatusLowBattery |-> IF body.battery <= 10 THEN 1 ELSE 0,
   ContactSensorState |-> IF body.doorState = "opened" THEN 1 ELSE 0]

\* openAPIparseStatus: ContactSensorState from deviceStatus.doorState, the battery fields
openAPIparseBattery(body) ==
  [BatteryLevel |-> body.battery,
   StatusLowBattery |-> IF body.battery < 10 THEN 1 ELSE 0,
   ContactSensorState |-> IF body.doorState = "opened" THEN 1 ELSE 0]

\* variant of updateCharacteristic: accessory.context gets the value the
\* characteristic had before the update
updateHomeKitCharacteristics_Before(lm, bat) ==
  /\ hk' = [hk EXCEPT !.LockTargetState = lm.LockTargetState,
                      !.LockCurrentState = lm.LockCurrentState,
                      !.ContactSensorState = bat.ContactSensorState,
                      !.BatteryLevel = bat.BatteryLevel,
                      !.StatusLowBattery = bat.StatusLowBattery]
  /\ context' = [context EXCEPT !.LockTargetState = hk.LockTargetState,
                                !.LockCurrentState = hk.LockCurrentState,
                                !.ContactSensorState = hk.ContactSensorState,
                                !.BatteryLevel = hk.BatteryLevel,
                                !.StatusLowBattery = hk.StatusLowBattery]

\* updateHomeKitCharacteristics: every field of lm and of bat is written to its
\* characteristic and to accessory.context (updateCharacteristic)
updateHomeKitCharacteristics(lm, bat) ==
  /\ hk' = [hk EXCEPT !.LockTargetState = lm.LockTargetState,
                      !.LockCurrentState = lm.LockCurrentState,
                      !.ContactSensorState = bat.ContactSensorState,
                      !.BatteryLevel = bat.BatteryLevel,
                      !.StatusLowBattery = bat.StatusLowBattery]
  /\ context' = [context EXCEPT !.LockTargetState = lm.LockTargetState,
                                !.LockCurrentState = lm.LockCurrentState,
                                !.ContactSensorState = bat.ContactSensorState,
                                !.BatteryLevel = bat.BatteryLevel,
                                !.StatusLowBattery = bat.StatusLowBattery]

\* apiError: the error is written into every characteristic
apiError ==
  hk' = [hk EXCEPT !.LockTargetState = ErrorMarker, !.LockCurrentState = ErrorMarker,
                   !.ContactSensorState = ErrorMarker, !.BatteryLevel = ErrorMarker,
                   !.StatusLowBattery = ErrorMarker]

\* offlineOff: with device.offline the characteristics are set to their defaults
offlineOff ==
  hk' = IF device.offline
          THEN [hk EXCEPT !.LockTargetState = SECURED, !.LockCurrentState = SECURED,
                          !.ContactSensorState = 0]
          ELSE hk

(* --------------------------- lock: push -------------------------------- *)
\* BLEpushChanges, retryBLE fn: lock() when the target is SECURED, unlock() otherwise
BLECommand(target) == IF target = SECURED THEN "lock" ELSE "unlock"

\* variant of openAPIpushChanges: the test of the target is inverted
APICommand_Inverted(LatchUnlock, target) ==
  IF LatchUnlock THEN "unlock" ELSE IF TruthyNum(target) THEN "unlock" ELSE "lock"

\* openAPIpushChanges: the command of the request body
APICommand(LatchUnlock, target) ==
  IF LatchUnlock THEN "unlock" ELSE IF TruthyNum(target) THEN "lock" ELSE "unlock"

\* BLEpushChanges / openAPIpushChanges: the no-change test
Changed == LockMechanism.LockTargetState # context.LockTargetState

\* a run: where it waits (pc), whether the subscriber still awaits it, the command
\* of the transport call it waits for, the attempts retryBLE made, and (history) the
\* number of the request whose debounce started it
NewRun == [pc |-> "start", awaited |-> TRUE, cmd |-> "", attempts |-> 0,
           last |-> hist.nRequests]
Idle == [pc |-> "idle", awaited |-> FALSE, cmd |-> "", attempts |-> 0, last |-> 0]
Done(r) == Idle

\* variant of openAPIpushChanges: the command is sent without the no-change test
openAPIpushChanges_Always(r, awaited) ==
  [r EXCEPT !.pc = "api", !.awaited = awaited,
            !.cmd = APICommand(FALSE, LockMechanism.LockTargetState)]

\* openAPIpushChanges up to its await of pushChangeRequest
openAPIpushChanges(r, awaited) ==
  IF Changed
    THEN [r EXCEPT !.pc = "api", !.awaited = awaited,
                   !.cmd = APICommand(FALSE, LockMechanism.LockTargetState)]
    ELSE Done(r)

\* BLEPushConnection
BLEPushConnection(r, awaited) ==
  IF FallbackToCloud THEN openAPIpushChanges(r, awaited) ELSE Done(r)

\* one attempt of the retryBLE loop: fn reads LockTargetState when it is called
BLEAttempt(r) ==
  [r EXCEPT !.pc = "retry", !.awaited = FALSE, !.attempts = r.attempts + 1,
            !.cmd = BLECommand(LockMechanism.LockTargetState)]

\* the interval(15000).pipe(skipWhile, take(1)) subscription pushChanges makes
\* age: the time since it was made; calls: the refreshStatus calls it made
NewPostPush == [remaining |-> PostPushRefreshDelay, age |-> 0, calls |-> 0]
\* the bag of one element, and of none when the element is `none`
One(x, none) == IF x = none THEN EmptyBag ELSE SetToBag({x})

\* The subscriber of doLockUpdate awaits pushChanges; pushChanges returns once the
\* call it awaits has returned.  r is the run before the step, r2 after it.
Returns(r, r2) == r.awaited /\ ~r2.awaited

\* variant of PushTail: the subscriber does not reset lockUpdateInProgress
PushTail_FlagKept(r, r2) ==
  IF Returns(r, r2)
    THEN /\ postPush' = postPush (+) SetToBag({NewPostPush})
         /\ UNCHANGED lockUpdateInProgress
    ELSE UNCHANGED <<postPush, lockUpdateInProgress>>

\* variant of PushTail: pushChanges returns without subscribing to interval(15000)
PushTail_NoRefresh(r, r2) ==
  IF Returns(r, r2)
    THEN /\ lockUpdateInProgress' = FALSE
         /\ UNCHANGED postPush
    ELSE UNCHANGED <<postPush, lockUpdateInProgress>>

\* the tail of pushChanges (the refresh subscription) and of the subscriber (the flag)
PushTail(r, r2) ==
  IF Returns(r, r2)
    THEN /\ postPush' = postPush (+) SetToBag({NewPostPush})
         /\ lockUpdateInProgress' = FALSE
    ELSE UNCHANGED <<postPush, lockUpdateInProgress>>

\* runs after run r became r2 (an idle run has left the bag)
RunsWith(r, r2) == (runs (-) One(r, NewRun)) (+) One(r2, Idle)

(* ------------------------------- inputs -------------------------------- *)
ModelTags == {<<BLEModelLock, BLEModelNameLock>>, <<BLEModelLockPro, BLEModelNameLockPro>>,
              <<BLEModelHub2, BLEModelNameHub2>>, <<"x", "WoOther">>}
\* what a status payload reports: the lock state and the humidity
Readings ==
  {[status |-> "locked", humidity |-> 50, battery |-> 100, doorState |-> "closed"],
   [status |-> "unlocked", humidity |-> 150, battery |-> 100, doorState |-> "closed"]}
\* advertisements monitorAdvertisementPackets can return
Adverts == {[tag |-> t, status |-> r.status, humidity |-> r.humidity,
             battery |-> <<r.battery>>, door_open |-> r.doorState = "opened"] :
              t \in ModelTags, r \in Readings}
\* the advertisements routed to the radio event handler: with a low battery, with no
\* battery value, with the door open
EventAdverts ==
  {[a EXCEPT !.battery = b, !.door_open = d] :
     a \in Adverts, b \in {<<>>, <<5>>, <<100>>}, d \in BOOLEAN}
ServiceData(a) == [model |-> a.tag[1], modelName |-> a.tag[2], status |-> a.status,
                   humidity |-> a.humidity, battery |-> a.battery,
                   door_open |-> a.door_open]
\* the body of a getStatus response
StatusBody(r) == [lockState |-> r.status, humidity |-> r.humidity, battery |-> r.battery,
                  doorState |-> r.doorState]
\* a webhook context
WebhookContext(r) ==
  [lockState |-> CASE r.status = "locked" -> "LOCKED"
                   [] r.status = "unlocked" -> "UNLOCKED"
                   [] OTHER -> "JAMMED",
   humidity |-> r.humidity]

\* what the transports answer to one refreshStatus call:
\*   connected  switchbotBLE() gave a handle (not undefined)
\*   advert     the advertisement monitorAdvertisementPackets returns
\*   throws     deviceRefreshStatus throws
\*   statusCode, reading   the response of deviceRefreshStatus
\* the tag of the family this accessory was made for
ExpectedTag(a) ==
  IF family = "Lock"
    THEN a.tag \in {<<BLEModelLock, BLEModelNameLock>>, <<BLEModelLockPro, BLEModelNameLockPro>>}
    ELSE a.tag = <<BLEModelHub2, BLEModelNameHub2>>

(* ------------------------------ refresh -------------------------------- *)
\* variant of refreshStatusBranch: the radio is tried before enableCloudService is read
refreshStatusBranch_RadioFirst ==
  IF BLE THEN "ble"
  ELSE IF CloudDisabled THEN "error"
  ELSE IF OpenAPI /\ HasToken THEN "api"
  ELSE "offline"

\* refreshStatus (Lock and Hub): the branch taken
\*   "error"   cloud is a transport but enableCloudService is off: errorLog only
\*   "ble"     BLERefreshStatus
\*   "api"     openAPIRefreshStatus
\*   "offline" offlineOff, "refreshStatus will not happen"
refreshStatusBranch ==
  IF CloudDisabled THEN "error"
  ELSE IF BLE THEN "ble"
  ELSE IF OpenAPI /\ HasToken THEN "api"
  ELSE "offline"

\* Hub.offlineOff: the cached context value is written to the characteristic
HubOfflineOff ==
  hk' = IF device.offline
          THEN [hk EXCEPT !.CurrentRelativeHumidity = context.CurrentRelativeHumidity]
          ELSE hk

\* Lock.BLERefreshStatus: the test on the advertisement's model and modelName
LockModelCheck(sd) ==
  /\ (sd.model = BLEModelLock \/ TruthyStr(BLEModelLockPro))
  /\ (sd.modelName = BLEModelNameLock \/ TruthyStr(BLEModelNameLockPro))

\* Hub.BLERefreshStatus: the test on the advertisement's model and modelName
HubModelCheck(sd) == sd.model = BLEModelHub2 /\ sd.modelName = BLEModelNameHub2

\* the test BLERefreshStatus makes on the advertisement
ModelCheck(sd) == IF family = "Lock" THEN LockModelCheck(sd) ELSE HubModelCheck(sd)

\* utils validHumidity(value, min, max)
validHumidity(h, lo, hi) == IF h < lo THEN lo ELSE IF h > hi THEN hi ELSE h

\* Hub.BLEparseStatus, openAPIparseStatus, parseStatusWebhook: CurrentRelativeHumidity
HubBLEparseStatus(sd) == [CurrentRelativeHumidity |-> validHumidity(sd.humidity, 0, 100)]
HubopenAPIparseStatus(body) == [CurrentRelativeHumidity |-> body.humidity]
HubparseStatusWebhook(ctx) == [CurrentRelativeHumidity |-> ctx.humidity]

\* Hub.updateHomeKitCharacteristics
HubupdateHomeKitCharacteristics(hs) ==
  /\ hk' = [hk EXCEPT !.CurrentRelativeHumidity = hs.CurrentRelativeHumidity]
  /\ context' = [context EXCEPT !.CurrentRelativeHumidity = hs.CurrentRelativeHumidity]

\* Hub.apiError
HubapiError == hk' = [hk EXCEPT !.CurrentRelativeHumidity = ErrorMarker]

\* the fields of the device are set by `parsed` and written to HomeKit
ParseAndUpdate(lockParsed, batteryParsed, hubParsed) ==
  IF family = "Lock"
    THEN /\ LockMechanism' = lockParsed
         /\ Battery' = batteryParsed
         /\ updateHomeKitCharacteristics(lockParsed, batteryParsed)
         /\ UNCHANGED HumiditySensor
    ELSE /\ HumiditySensor' = hubParsed
         /\ HubupdateHomeKitCharacteristics(hubParsed)
         /\ UNCHANGED <<LockMechanism, Battery>>

NothingApplied == UNCHANGED <<LockMechanism, Battery, HumiditySensor, hk, context>>

\* variant of openAPIRefreshStatus: the body is parsed whatever the statusCode is
openAPIRefreshStatus_AnyCode(o) ==
  IF o.throws
    THEN /\ IF family = "Lock" THEN apiError ELSE HubapiError
         /\ UNCHANGED <<LockMechanism, Battery, HumiditySensor, context>>
    ELSE ParseAndUpdate(openAPIparseStatus(StatusBody(o.reading)),
                        openAPIparseBattery(StatusBody(o.reading)),
                        HubopenAPIparseStatus(StatusBody(o.reading)))

\* openAPIRefreshStatus with the answer o
openAPIRefreshStatus(o) ==
  IF o.throws
    THEN /\ IF family = "Lock" THEN apiError ELSE HubapiError
         /\ UNCHANGED <<LockMechanism, Battery, HumiditySensor, context>>
  ELSE IF o.statusCode \in SuccessCodes
    THEN ParseAndUpdate(openAPIparseStatus(StatusBody(o.reading)),
                        openAPIparseBattery(StatusBody(o.reading)),
                        HubopenAPIparseStatus(StatusBody(o.reading)))
  ELSE NothingApplied

\* BLERefreshConnection: the refresh goes on over OpenAPI, or ends
BLERefreshConnection(o) ==
  IF FallbackToCloud THEN openAPIRefreshStatus(o) ELSE NothingApplied

\* the advertisement BLERefreshStatus obtained, and whether it was parsed
Obtained(o) == [seen |-> TRUE, expected |-> ExpectedTag(o.advert),
                applied |-> ModelCheck(ServiceData(o.advert))]

\* BLERefreshStatus with the answer o
BLERefreshStatus(o) ==
  IF ~o.connected THEN BLERefreshConnection(o)
  ELSE IF ModelCheck(ServiceData(o.advert))
    THEN ParseAndUpdate(BLEparseStatus(ServiceData(o.advert)),
                        BLEparseBattery(ServiceData(o.advert)),
                        HubBLEparseStatus(ServiceData(o.advert)))
  ELSE BLERefreshConnection(o)

\* the deviceRefreshStatus requests one refreshStatus call makes with the answer o:
\* one in openAPIRefreshStatus, reached directly or through BLERefreshConnection
StatusRequests(o) ==
  CASE refreshStatusBranch = "api" -> 1
    [] refreshStatusBranch = "ble" ->
         IF (~o.connected \/ ~ModelCheck(ServiceData(o.advert))) /\ FallbackToCloud
           THEN 1 ELSE 0
    [] OTHER -> 0

\* variant of catchCloudError: the catch clause throws the error on to its caller
catchCloudError_Rethrows == failures' = [failures EXCEPT !.escaped = TRUE]

\* catch (e) { await this.apiError(e); this.errorLog(...) } of a cloud call: the error
\* is logged and the call returns
catchCloudError == failures' = [failures EXCEPT !.unlogged = @ \/ FALSE]

\* refreshStatus, the transports answering o
refreshStatus(o) ==
  /\ CASE refreshStatusBranch = "error" -> NothingApplied
        [] refreshStatusBranch = "ble" -> BLERefreshStatus(o)
        [] refreshStatusBranch = "api" -> openAPIRefreshStatus(o)
        [] OTHER -> /\ IF family = "Lock" THEN offlineOff ELSE HubOfflineOff
                    /\ UNCHANGED <<LockMechanism, Battery, HumiditySensor, context>>
  /\ IF StatusRequests(o) = 1 /\ o.throws THEN catchCloudError ELSE UNCHANGED failures

\* BLERefreshConnection was entered: its errorLog line was written
ConnectionError(o) ==
  refreshStatusBranch = "ble" /\ (~o.connected \/ ~ModelCheck(ServiceData(o.advert)))

\* The answers of the transports to one refreshStatus call, each field fixed where
\* refreshStatus does not read it.
NoAnswer == [connected |-> FALSE, advert |-> CHOOSE a \in Adverts : TRUE, throws |-> FALSE,
             statusCode |-> 100, reading |-> CHOOSE r \in Readings : TRUE]
CloudAnswers(o) ==
  {[o EXCEPT !.throws = TRUE], [o EXCEPT !.statusCode = 190]}
    \cup {[o EXCEPT !.statusCode = c, !.reading = r] : c \in SuccessCodes, r \in Readings}
FallbackAnswers(o) == IF FallbackToCloud THEN CloudAnswers(o) ELSE {o}
RefreshOutcomes ==
  CASE refreshStatusBranch = "api" -> CloudAnswers(NoAnswer)
    [] refreshStatusBranch = "ble" ->
         FallbackAnswers(NoAnswer) \cup
         UNION {IF ModelCheck(ServiceData(a))
                  THEN {[NoAnswer EXCEPT !.connected = TRUE, !.advert = a]}
                  ELSE FallbackAnswers([NoAnswer EXCEPT !.connected = TRUE, !.advert = a]) :
                a \in Adverts}
    [] OTHER -> {NoAnswer}

(* ---------------------- irdevice: the error classifier ------------------ *)
\* device ids: the device's own, the placeholder of a device without hub, another hub
OwnDeviceId == "AABBCCDDEEFF"
NoHubDeviceId == "000000000000"
HubDeviceIds == {OwnDeviceId, NoHubDeviceId, "112233445566"}

\* statusCode: the table statusMessages
statusMessages ==
  [c \in {151, 152, 160, 161, 171, 190, 100, 200, 400, 401, 403, 404, 406, 415, 422, 429, 500} |->
     CASE c = 151 -> "Command not supported by this deviceType"
       [] c = 152 -> "Device not found"
       [] c = 160 -> "Command is not supported"
       [] c = 161 -> "Device is offline"
       [] c = 171 -> "Hub Device is offline. Hub: " \o irdevice.hubDeviceId
       [] c = 190 -> "Device internal error due to device states not synchronized with server, or command format is invalid"
       [] c = 100 -> "Command successfully sent"
       [] c = 200 -> "Request successful"
       [] c = 400 -> "Bad Request, an invalid payload request"
       [] c = 401 -> "Unauthorized, Authorization for the API is required, but the request has not been authenticated"
       [] c = 403 -> "Forbidden, The request has been authenticated but does not have appropriate permissions, or a requested resource is not found"
       [] c = 404 -> "Not Found, Specifies the requested path does not exist"
       [] c = 406 -> "Not Acceptable, a MIME type has been requested via the Accept header for a value not supported by the server"
       [] c = 415 -> "Unsupported Media Type, a contentType header has been defined that is not supported by the server"
       [] c = 422 -> "Unprocessable Entity: The server cannot process the request, often due to exceeded API limits."
       [] c = 429 -> "Too Many Requests, exceeded the number of requests allowed for a given time window"
       [] c = 500 -> "Internal Server Error, An unexpected error occurred. These errors should be rare"]

\* statusMessages[statusCode]: the empty string stands for undefined
MessageOf(code) == IF code \in DOMAIN statusMessages THEN statusMessages[code] ELSE ""

\* variant of OwnHub: the placeholder id is not taken for the device's own
OwnHub_NoPlaceholder == irdevice.hubDeviceId = irdevice.deviceId

\* statusCode: the device is its own hub
OwnHub == irdevice.hubDeviceId = irdevice.deviceId \/ irdevice.hubDeviceId = NoHubDeviceId

\* statusCode: the code after the rewrite of 171
Rewritten(code) == IF code = 171 /\ OwnHub THEN 161 ELSE code

\* variant of logMethod: every code without a success is an error
logMethod_NoInfo(code) == IF code \in {100, 200} THEN "debugLog" ELSE "errorLog"

\* statusCode: logMessage and logMethod of the (rewritten) code
logMessage(code) ==
  IF TruthyStr(MessageOf(code)) THEN MessageOf(code)
  ELSE "Unknown statusCode: " \o ToString(code) \o ", Submit Bugs Here: https://tinyurl.com/SwitchBotBug"
logMethod(code) ==
  IF code \in {100, 200} THEN "debugLog"
  ELSE IF TruthyStr(MessageOf(code)) THEN "errorLog"
  ELSE "infoLog"

\* the input codes
StatusCodes == 0..MaxStatusCode

\* statusCode(code): the lines it logs; the history part of a line keeps the code
\* the method was called with
statusCodeLines(code) ==
  (IF code = 171 /\ OwnHub
     THEN <<[method |-> "debugErrorLog", message |-> "statusCode 171 changed to 161",
             statusCode |-> code, input |-> code]>>
     ELSE <<>>)
  \o <<[method |-> logMethod(Rewritten(code)), message |-> logMessage(Rewritten(code)),
         statusCode |-> Rewritten(code), input |-> code]>>

statusCode(code) ==
  /\ irdevice' = [irdevice EXCEPT !.log = statusCodeLines(code)]
  /\ UNCHANGED <<family, device, handling, handlers, failures, firmware, Switch, latch, lockUpdateInProgress, LockMechanism, Battery, context, hk,
                 debounceTimer, updateInterval, postPush, runs, initialRefresh, HumiditySensor,
                 hist>>

(* ------------------- irdevice: configuration and commands --------------- *)
\* a ?? b on configuration values that may be absent: <<>> is undefined, <<v>> is v
Nullish(a, b) == IF a # <<>> THEN a ELSE b

\* the configuration of an irdevice that sets nothing
DefaultIrConfig ==
  [connectionType |-> "OpenAPI", customize |-> FALSE, customOn |-> "", customOff |-> "",
   commandType |-> "", disablePushOn |-> FALSE, disablePushOff |-> FALSE,
   maxRetries |-> <<>>, delayBetweenRetries |-> <<>>,
   platformMaxRetries |-> <<>>, platformDelayBetweenRetries |-> <<>>, type |-> <<>>]

\* the display types of an Others accessory and the values HomeKit hands to OnSet for
\* each: On, TargetDoorState (OPEN 0, CLOSED 1), TargetPosition, LockTargetState,
\* Active (INACTIVE 0, ACTIVE 1), ProgrammableSwitchOutputState
OnSetValues ==
  [Switch |-> BOOLEAN, Outlet |-> BOOLEAN, GarageDoor |-> {0, 1}, Door |-> {0, 50, 100},
   Window |-> {0, 100}, WindowCovering |-> {0, 100}, Lock |-> {UNSECURED, SECURED},
   Faucet |-> {0, 1}, Fan |-> {0, 1}, Stateful |-> {0, 1}]

\* device configurations of an irdevice: those that differ in what they push, those
\* that differ in the retry settings of the device and of the platform, and the
\* customized ones of every display type
IrConfigs ==
  {[DefaultIrConfig EXCEPT !.connectionType = ct, !.customize = cu, !.customOn = on,
                           !.customOff = off, !.commandType = ty,
                           !.disablePushOn = dOn, !.disablePushOff = dOff] :
     ct \in {"OpenAPI", "Disabled"}, cu \in BOOLEAN, on \in {"", "powerOn"},
     off \in {"", "powerOff"}, ty \in {"", "tag"}, dOn \in BOOLEAN, dOff \in BOOLEAN}
  \cup
  {[DefaultIrConfig EXCEPT !.maxRetries = m, !.platformMaxRetries = pm,
                           !.delayBetweenRetries = d, !.platformDelayBetweenRetries = pd] :
     m \in {<<>>, <<0>>, <<3>>}, pm \in {<<>>, <<0>>, <<5>>},
     d \in {<<>>, <<0>>, <<1>>}, pd \in {<<>>, <<0>>, <<7000>>}}
  \cup
  {[DefaultIrConfig EXCEPT !.customize = TRUE, !.type = <<t>>, !.disablePushOn = dOn,
                           !.disablePushOff = dOff] :
     t \in DOMAIN OnSetValues, dOn \in BOOLEAN, dOff \in BOOLEAN}

\* getDeviceRateSettings: deviceMaxRetries and deviceDelayBetweenRetries
getDeviceRateSettings(c) ==
  [deviceMaxRetries |->
     Nullish(c.maxRetries, Nullish(c.platformMaxRetries, <<DefaultMaxRetries>>))[1],
   deviceDelayBetweenRetries |->
     IF c.delayBetweenRetries # <<>> /\ c.delayBetweenRetries[1] # 0
       THEN c.delayBetweenRetries[1] * 1000
       ELSE Nullish(c.platformDelayBetweenRetries, <<DefaultDelayBetweenRetries>>)[1]]

\* the Others accessory after its constructor: the display type is device.type ??
\* 'Outlet', On is not set, nothing was exposed, cached, pushed or logged; lastSet is
\* the history of the last OnSet call
Others(c, h) ==
  [deviceId |-> OwnDeviceId, hubDeviceId |-> h, log |-> <<>>, config |-> c,
   rate |-> getDeviceRateSettings(c), On |-> "undefined",
   otherDeviceType |-> Nullish(c.type, <<"Outlet">>)[1],
   lastSet |-> [stamp |-> FALSE, value |-> <<>>],
   hk |-> [On |-> "undefined"], context |-> [On |-> "undefined"],
   pending |-> EmptyBag, sent |-> 0,
   lastPush |-> [stamp |-> FALSE, statusCode |-> 0, throws |-> FALSE]]

\* commandType()
commandType ==
  IF irdevice.config.commandType # "" /\ irdevice.config.customize
    THEN irdevice.config.commandType
  ELSE IF irdevice.config.customize THEN "customize"
  ELSE "command"

\* variant of commandOn: customOn is used whenever customization is enabled
commandOn_NoGeneric ==
  IF irdevice.config.customize THEN irdevice.config.customOn ELSE "turnOn"

\* commandOn(), commandOff()
commandOn ==
  IF irdevice.config.customize /\ irdevice.config.customOn # ""
    THEN irdevice.config.customOn ELSE "turnOn"
commandOff ==
  IF irdevice.config.customize /\ irdevice.config.customOff # ""
    THEN irdevice.config.customOff ELSE "turnOff"

\* pushOnChanges / pushOffChanges: the bodyChange objects handed to pushChanges
bodyChanges(On) ==
  IF ~irdevice.config.customize THEN {}
  ELSE IF On /\ ~irdevice.config.disablePushOn
    THEN {[command |-> commandOn, parameter |-> "default", commandType |-> commandType]}
  ELSE IF ~On /\ ~irdevice.config.disablePushOff
    THEN {[command |-> commandOff, parameter |-> "default", commandType |-> commandType]}
  ELSE {}

\* pushChanges(bodyChange): the requests made with pushChangeRequest
pushChangeRequests(bodies) ==
  IF irdevice.config.connectionType = "OpenAPI" THEN SetToBag(bodies) ELSE EmptyBag

\* variant of OnSet: the types with an enumerated target are treated like the
\* position types
OthersOn_Position(type, value, On) ==
  CASE type \in {"Switch", "Outlet"} -> IF value # FALSE THEN "true" ELSE "false"
    [] type = "Fan" -> On
    [] OTHER -> IF value # 0 THEN "true" ELSE "false"

\* Others.OnSet(value), the branch of the display type: the On field after it.  There
\* is no branch for Fan; the last branch tests this.Outlet, which a Fan does not have,
\* and On stays as it was
OthersOn(type, value, On) ==
  CASE type = "Switch" -> IF value # FALSE THEN "true" ELSE "false"
    [] type = "GarageDoor" -> IF value # 1 THEN "true" ELSE "false"
    [] type \in {"Door", "Window", "WindowCovering", "Stateful"} ->
         IF value # 0 THEN "true" ELSE "false"
    [] type = "Lock" -> IF value # SECURED THEN "true" ELSE "false"
    [] type = "Faucet" -> IF value # 0 THEN "true" ELSE "false"
    [] type = "Fan" -> On
    [] OTHER -> IF value # FALSE THEN "true" ELSE "false"

\* Others.OnSet(value): On is set and pushOnChanges (On === true) or pushOffChanges
\* runs up to the request; pushOffChanges sends nothing when On is not false
OthersOnSet(value) ==
  /\ irdevice.sent < MaxIrRequests
  /\ LET On == OthersOn(irdevice.otherDeviceType, value, irdevice.On)
         bodies == IF On = "undefined" THEN {} ELSE bodyChanges(On = "true")
     IN irdevice' = [irdevice EXCEPT
          !.On = On,
          !.lastSet = [stamp |-> ~@.stamp, value |-> <<value>>],
          !.pending = @ (+) pushChangeRequests(bodies),
          !.sent = @ + BagCardinality(pushChangeRequests(bodies))]
  /\ UNCHANGED <<family, device, handling, handlers, failures, firmware, Switch, latch, lockUpdateInProgress, LockMechanism, Battery, context, hk,
                 debounceTimer, updateInterval, postPush, runs, initialRefresh, HumiditySensor,
                 hist>>

\* variant of pushChangesDone: a rejected command is sent again
pushChangesDone_Retry(b, a) ==
  IF a.throws \/ a.statusCode \in SuccessCodes
    THEN irdevice.pending (-) SetToBag({b}) ELSE irdevice.pending

\* the request b of pushChanges is over
pushChangesDone(b, a) == irdevice.pending (-) SetToBag({b})

\* pushChanges after pushChangeRequest(b) settled with the answer a:
\* updateHomeKitCharacteristics on success, statusCode otherwise, apiError and
\* pushChangeError when the request threw
OthersPushDone(b, a) ==
  /\ irdevice' = [irdevice EXCEPT
       !.pending = pushChangesDone(b, a),
       !.lastPush = [stamp |-> ~@.stamp, statusCode |-> a.statusCode, throws |-> a.throws],
       !.hk = IF a.throws THEN [On |-> "error"]
              ELSE IF a.statusCode \in SuccessCodes /\ irdevice.On # "undefined"
                THEN [On |-> irdevice.On]
              ELSE @,
       !.log = IF a.throws
                 THEN <<[method |-> "errorLog", message |-> "failed pushChanges",
                         statusCode |-> 0, input |-> 0]>>
               ELSE IF a.statusCode \in SuccessCodes THEN @
               ELSE statusCodeLines(a.statusCode)]
  /\ UNCHANGED <<family, device, handling, handlers, failures, firmware, Switch, latch, lockUpdateInProgress, LockMechanism, Battery, context, hk,
                 debounceTimer, updateInterval, postPush, runs, initialRefresh, HumiditySensor,
                 hist>>

(* --------------------------- firmware version -------------------------- *)
\* an undefined version, and the default '0.0.0'
UndefinedVersion == <<"undefined">>
DefaultVersion == <<"0", ".", "0", ".", "0">>

\* the version strings a device config, a cached context, the platform or a status
\* body can hold
VersionChars == {"V", "1", ".", "-"}
VersionInputs ==
  UNION {[1..n -> VersionChars] : n \in 0..MaxVersionLen}
    \cup {<<"V", "1", ".", "2", "-", "b", "e", "t", "a">>, <<"1", "2", "3">>}

\* version.replace(/^V|-.*$/g, ''): a leading V and everything from the first '-'
StripV(s) == IF s # <<>> /\ s[1] = "V" THEN Tail(s) ELSE s
CutDash(s) ==
  LET dashes == {i \in 1..Len(s) : s[i] = "-"}
  IN IF dashes = {} THEN s
     ELSE SubSeq(s, 1, (CHOOSE i \in dashes : \A j \in dashes : i <= j) - 1)
Replace(s) == CutDash(StripV(s))

\* version.includes('.')
IncludesDot(s) == \E i \in 1..Len(s) : s[i] = "."

\* replace.match(/./g)?.join('.'): undefined when there is no character
JoinDots(s) ==
  IF s = <<>> THEN UndefinedVersion
  ELSE [i \in 1..(2 * Len(s) - 1) |-> IF i % 2 = 1 THEN s[(i + 1) \div 2] ELSE "."]

\* a ?? b
Coalesce(a, b) == IF a = UndefinedVersion THEN b ELSE a

\* irdevice getDeviceContext: deviceVersion of the version string
deviceVersion(version) ==
  IF ~IncludesDot(version)
    THEN Coalesce(JoinDots(Replace(version)), DefaultVersion)
    ELSE Replace(version)

\* irdevice getDeviceContext(accessory, device) with device.firmware = fw and
\* platform.version = pv; the history keeps the version before the default
getDeviceContext(fw, pv) ==
  LET given == Coalesce(fw, Coalesce(firmware.version, pv))
      applied == deviceVersion(Coalesce(given, DefaultVersion))
  IN firmware' = [FirmwareRevision |-> applied, version |-> applied,
                  input |-> given, by |-> "getDeviceContext"]

\* Hub / Lock openAPIparseStatus, Firmware Version, with deviceStatus.version = v:
\* nothing is written when v is undefined or empty
parseStatusVersion(v) ==
  IF v # UndefinedVersion /\ v # <<>>
    THEN firmware' = [FirmwareRevision |-> Replace(v), version |-> Replace(v),
                      input |-> v, by |-> "openAPIparseStatus"]
    ELSE firmware' = [firmware EXCEPT !.input = v, !.by = "openAPIparseStatus"]

(* -------------------------------- Init --------------------------------- *)
NoAdvert == [seen |-> FALSE, expected |-> TRUE, applied |-> FALSE]
\* history of the last refreshStatus call: a stamp that flips at every call, whether
\* the radio was tried and gave nothing usable, the getStatus requests made, whether
\* the connection error was logged, and the answer of the cloud
NoCall == [stamp |-> FALSE, radioFailed |-> FALSE, requests |-> 0, errorLogged |-> FALSE,
           throws |-> FALSE, statusCode |-> 100, reading |-> CHOOSE r \in Readings : TRUE]

\* A configuration field is varied only where the code reads it: the token in the
\* OpenAPI branch and the fallback, enableCloudService where OpenAPI is a transport,
\* device.offline where offlineOff is reached.  The webhook handler is registered.
ReadsToken(c) == c.enableCloudService /\ c.connectionType \in {"OpenAPI", "BLE/OpenAPI"}
ReadsOffline(c) ==
  \/ c.connectionType = "Disabled"
  \/ c.connectionType = "OpenAPI" /\ c.enableCloudService /\ ~c.token
Configs ==
  {c \in AllConfigs :
     /\ c.webhook
     /\ c.maxRetries = DefaultMaxRetries
     /\ c.connectionType \in {"BLE", "Disabled"} => c.enableCloudService
     /\ ~ReadsToken(c) => ~c.token
     /\ ~ReadsOffline(c) => ~c.offline}

\* no event was handled yet; threw: the parse of some earlier event threw; repeated:
\* the event applied the values that the event before it had applied and left exposed
NoEvent == [stamp |-> FALSE, table |-> "none", malformed |-> FALSE, errorLogged |-> FALSE,
            payload |-> [status |-> "null", humidity |-> 0], threw |-> FALSE,
            repeated |-> FALSE]

\* variant of registerWebhook: the handler is put in the table whatever device.webhook is
registerHandlers_Always == [webhook : {TRUE}, ble : BOOLEAN]

\* registerWebhook and registerPlatformBLE: the handler of the device is put in the
\* table when device.webhook, resp. config.options.BLE, is set
registerHandlers == [webhook : {device.webhook}, ble : BOOLEAN]

\* the state after construction of a device whose configuration is one of cs, and of
\* an irdevice that is one of irs
StartWith(cs, irs) ==
  /\ family \in {"Lock", "Hub"}
  /\ device \in cs
  /\ lockUpdateInProgress = FALSE
  /\ \E c \in {Undefined, SECURED, UNSECURED} :
       /\ context = [LockTargetState |-> c, LockCurrentState |-> c,
                     CurrentRelativeHumidity |-> Undefined, BatteryLevel |-> Undefined,
                     StatusLowBattery |-> Undefined, ContactSensorState |-> Undefined]
       /\ LockMechanism = [LockTargetState |-> IF c = Undefined THEN SECURED ELSE c,
                           LockCurrentState |-> IF c = Undefined THEN SECURED ELSE c]
       /\ family = "Hub" => c = Undefined
  /\ HumiditySensor = [CurrentRelativeHumidity |-> 0]
  /\ Battery = [BatteryLevel |-> 100, StatusLowBattery |-> 0, ContactSensorState |-> 0]
  /\ hk = [LockTargetState |-> Undefined, LockCurrentState |-> Undefined,
           CurrentRelativeHumidity |-> Undefined, On |-> FALSE,
           BatteryLevel |-> Undefined, StatusLowBattery |-> Undefined,
           ContactSensorState |-> Undefined]
  /\ Switch = [On |-> FALSE]
  /\ latch = EmptyBag
  /\ irdevice \in irs
  /\ firmware = [FirmwareRevision |-> UndefinedVersion, version |-> UndefinedVersion,
                 input |-> UndefinedVersion, by |-> "none"]
  /\ handlers \in registerHandlers
  /\ failures = [unlogged |-> FALSE, escaped |-> FALSE]
  /\ handling = EmptyBag
  /\ debounceTimer = <<>>
  /\ updateInterval = [remaining |-> RefreshMs, skipping |-> TRUE]
  /\ postPush = EmptyBag
  /\ runs = EmptyBag
  /\ initialRefresh = TRUE
  /\ hist = [nRequests |-> 0, owed |-> 0, lastRequest |-> Undefined,
             transport |-> "none", lastAdvert |-> NoAdvert, lastCall |-> NoCall,
             lastEvent |-> NoEvent, seen |-> {}, overlap |-> FALSE]

\* the same, the irdevice being one without customization
Start(cs) == StartWith(cs, {Others(c, h) : c \in {DefaultIrConfig}, h \in HubDeviceIds})

Init == Start(Configs) /\ irdevice.hubDeviceId = NoHubDeviceId /\ ~handlers.ble

(* ------------------------- lock: change requests ----------------------- *)
\* LockTargetStateSet(value): the field is written and doLockUpdate.next() runs the
\* tap (the flag) and restarts debounceTime
LockTargetStateSet(value) ==
  /\ family = "Lock"
  /\ hist.nRequests < MaxRequests
  /\ LockMechanism' = [LockMechanism EXCEPT !.LockTargetState = value]
  /\ lockUpdateInProgress' = TRUE
  /\ debounceTimer' = <<DebounceMs>>
  /\ hist' = [hist EXCEPT !.nRequests = @ + 1,
                          !.owed = IF debounceTimer = <<>> THEN @ + 1 ELSE @,
                          !.lastRequest = value]
  /\ UNCHANGED <<family, device, handling, handlers, failures, firmware, irdevice, Switch, latch, context, hk, updateInterval, postPush, runs,
                 initialRefresh, HumiditySensor, Battery>>

\* platform.connectBLE resolves to a handle (TRUE) or to false; it does not throw
connectBLE == BOOLEAN

\* pushChanges up to the first transport call it waits for; connected is the
\* result of platform.connectBLE
pushChanges(connected) ==
  IF CloudDisabled THEN Done(NewRun)
  ELSE IF BLE THEN
    IF Changed
      THEN IF connected
             THEN [NewRun EXCEPT !.pc = "discover", !.awaited = FALSE]
             ELSE BLEPushConnection(NewRun, TRUE)
      ELSE Done(NewRun)
  ELSE IF OpenAPI /\ HasToken THEN openAPIpushChanges(NewRun, TRUE)
  ELSE Done(NewRun)

\* the branch of pushChanges that calls offlineOff
pushChangesOffline == ~CloudDisabled /\ ~BLE /\ ~(OpenAPI /\ HasToken)

\* debounceTime emits: the subscriber of doLockUpdate starts a pushChanges run
DebounceFire ==
  /\ debounceTimer # <<>>
  /\ debounceTimer[1] <= 0
  /\ debounceTimer' = <<>>
  /\ \E connected \in connectBLE :
       LET r2 == pushChanges(connected) IN
         /\ runs' = RunsWith(NewRun, r2)
         /\ PushTail(NewRun, r2)
  /\ IF pushChangesOffline THEN offlineOff ELSE hk' = hk
  /\ hist' = [hist EXCEPT !.owed = @ - 1]
  /\ UNCHANGED <<family, device, handling, handlers, failures, firmware, irdevice, Switch, latch, LockMechanism, Battery, context, updateInterval,
                 initialRefresh, HumiditySensor>>

\* BLEpushChanges: discover() of run r settles; found is false when it rejects
DiscoverDone(r, found) ==
  /\ r.pc = "discover"
  /\ LET r2 == IF found THEN BLEAttempt(r) ELSE BLEPushConnection(r, FALSE) IN
       /\ runs' = RunsWith(r, r2)
       /\ PushTail(r, r2)
  /\ IF found THEN hk' = hk ELSE apiError
  /\ UNCHANGED <<family, device, handling, handlers, failures, firmware, irdevice, Switch, latch, LockMechanism, Battery, context, debounceTimer, updateInterval,
                 initialRefresh, HumiditySensor, hist>>

\* retryBLE: the lock()/unlock() attempt of run r settles; after a failure within the
\* budget the loop waits before the next attempt
RetryDone(r, ok) ==
  /\ r.pc = "retry"
  /\ LET r2 == IF ok THEN Done(r)
               ELSE IF r.attempts < maxRetryBLE THEN [r EXCEPT !.pc = "delay", !.cmd = ""]
               ELSE BLEPushConnection(r, FALSE) IN
       /\ runs' = RunsWith(r, r2)
       /\ PushTail(r, r2)
  /\ IF ok THEN updateHomeKitCharacteristics(LockMechanism, Battery)
     ELSE IF r.attempts < maxRetryBLE THEN UNCHANGED <<hk, context>>
     ELSE apiError /\ context' = context
  /\ UNCHANGED <<family, device, handling, handlers, failures, firmware, irdevice, Switch, latch, LockMechanism, Battery, debounceTimer, updateInterval,
                 initialRefresh, HumiditySensor, hist>>

\* retryBLE: the delay between two attempts of run r is over
RetryDelay(r) ==
  /\ r.pc = "delay"
  /\ runs' = RunsWith(r, BLEAttempt(r))
  /\ UNCHANGED <<family, device, handling, handlers, failures, firmware, irdevice, Switch, latch, lockUpdateInProgress, LockMechanism, Battery, context, hk,
                 debounceTimer, updateInterval, postPush, initialRefresh, HumiditySensor, hist>>

\* openAPIpushChanges: pushChangeRequest of run r settles with a status code, or throws
ApiPushDone(r, outcome) ==
  /\ r.pc = "api"
  /\ LET r2 == Done(r) IN
       /\ runs' = RunsWith(r, r2)
       /\ PushTail(r, r2)
  /\ CASE outcome = "success" ->
            updateHomeKitCharacteristics(LockMechanism, Battery) /\ UNCHANGED failures
       [] outcome = "rejected" -> UNCHANGED <<hk, context, failures>>
       [] outcome = "throws" -> apiError /\ context' = context /\ catchCloudError
  /\ UNCHANGED <<family, device, handling, handlers, firmware, irdevice, Switch, latch, LockMechanism, Battery, debounceTimer, updateInterval,
                 initialRefresh, HumiditySensor, hist>>

(* -------------------------------- timers ------------------------------- *)
\* the constructor's refreshStatus() call: its answer arrives
InitialRefresh(o) ==
  /\ initialRefresh
  /\ initialRefresh' = FALSE
  /\ refreshStatus(o)
  /\ UNCHANGED <<family, device, handling, handlers, firmware, irdevice, Switch, latch, lockUpdateInProgress, debounceTimer, updateInterval,
                 postPush, runs, hist>>

\* skipWhile(() => lockUpdateInProgress) on the refresh interval: values are dropped
\* until the predicate is false once, and all pass from then on
StillSkipping == updateInterval.skipping /\ lockUpdateInProgress

\* the refresh interval (interval(deviceRefreshRate * 1000)) emits
UpdateIntervalFire(o) ==
  /\ updateInterval.remaining <= 0
  /\ updateInterval' = [remaining |-> RefreshMs, skipping |-> StillSkipping]
  /\ IF StillSkipping
       THEN UNCHANGED <<LockMechanism, Battery, HumiditySensor, hk, context, failures>>
       ELSE refreshStatus(o)
  /\ UNCHANGED <<family, device, handling, handlers, firmware, irdevice, Switch, latch, lockUpdateInProgress, debounceTimer, postPush, runs,
                 initialRefresh, hist>>

\* skipWhile(() => lockUpdateInProgress) followed by take(1): the first value for
\* which the predicate is false passes, and the subscription ends with it
PostPushPasses(t) == ~lockUpdateInProgress

\* variant of PostPushTaken: without take(1) the subscription goes on
PostPushTaken_Resubscribed(t) ==
  SetToBag({[t EXCEPT !.remaining = PostPushRefreshDelay, !.calls = @ + 1]})

\* what is left of the subscription after a value passed: take(1) completed it
PostPushTaken(t) == EmptyBag

\* the interval(15000) subscription t made by pushChanges emits
PostPushFire(t, o) ==
  /\ t.remaining <= 0
  /\ IF PostPushPasses(t)
       THEN /\ postPush' = (postPush (-) SetToBag({t})) (+) PostPushTaken(t)
            /\ refreshStatus(o)
       ELSE /\ postPush' = (postPush (-) SetToBag({t}))
                             (+) SetToBag({[t EXCEPT !.remaining = PostPushRefreshDelay]})
            /\ UNCHANGED <<LockMechanism, Battery, HumiditySensor, hk, context, failures>>
  /\ UNCHANGED <<family, device, handling, handlers, firmware, irdevice, Switch, latch, lockUpdateInProgress, debounceTimer, updateInterval, runs,
                 initialRefresh, hist>>

\* a timer is due: time does not pass before its callback has run
TimerDue ==
  \/ debounceTimer # <<>> /\ debounceTimer[1] <= 0
  \/ updateInterval.remaining <= 0
  \/ \E t \in BagToSet(postPush) : t.remaining <= 0
  \/ \E l \in BagToSet(latch) : l.pc = "timer" /\ l.remaining <= 0

\* t after TimeStep milliseconds
Aged(t) == [t EXCEPT !.remaining = @ - TimeStep,
                     !.age = Min(@ + TimeStep, PostPushRefreshDelay)]

\* a latch call after TimeStep milliseconds
LatchAged(l) == IF l.pc = "timer" THEN [l EXCEPT !.remaining = @ - TimeStep] ELSE l

\* TimeStep milliseconds pass
Tick ==
  /\ ~TimerDue
  /\ ~initialRefresh
  /\ debounceTimer' = IF debounceTimer = <<>> THEN <<>> ELSE <<debounceTimer[1] - TimeStep>>
  /\ updateInterval' = [updateInterval EXCEPT !.remaining = @ - TimeStep]
  /\ postPush' = BagOfAll(Aged, postPush)
  /\ latch' = BagOfAll(LatchAged, latch)
  /\ UNCHANGED <<family, device, handling, handlers, failures, firmware, irdevice, Switch, lockUpdateInProgress, LockMechanism, Battery, context, hk,
                 runs, initialRefresh, HumiditySensor, hist>>

\* the handler registerWebhook put into platform.webhookEventHandler is called
Webhook(r) ==
  /\ handlers.webhook
  /\ ParseAndUpdate(parseStatusWebhook(WebhookContext(r)), Battery,
                    HubparseStatusWebhook(WebhookContext(r)))
  /\ UNCHANGED <<family, device, handling, handlers, failures, firmware, irdevice, Switch, latch, lockUpdateInProgress, debounceTimer, updateInterval,
                 postPush, runs, initialRefresh, hist>>

(* ------------------------------ behaviours ----------------------------- *)
Next ==
  \/ \E value \in {SECURED, UNSECURED} : LockTargetStateSet(value)
  \/ DebounceFire
  \/ \E r \in BagToSet(runs), found \in BOOLEAN : DiscoverDone(r, found)
  \/ \E r \in BagToSet(runs), ok \in BOOLEAN : RetryDone(r, ok)
  \/ \E r \in BagToSet(runs) : RetryDelay(r)
  \/ \E r \in BagToSet(runs), outcome \in {"success", "rejected", "throws"} : ApiPushDone(r, outcome)
  \/ \E o \in RefreshOutcomes : InitialRefresh(o)
  \/ \E o \in RefreshOutcomes : UpdateIntervalFire(o)
  \/ \E t \in BagToSet(postPush), o \in RefreshOutcomes : PostPushFire(t, o)
  \/ Tick
  \/ \E r \in Readings : Webhook(r)

Spec == Init /\ [][Next]_vars

\* Timers fire and time passes (the event loop), and every transport call settles.
\* Nothing obliges the user to make a request or the cloud to send a webhook.
Fairness ==
  /\ WF_vars(Tick)
  /\ WF_vars(DebounceFire)
  /\ WF_vars(\E r \in BagToSet(runs), found \in BOOLEAN : DiscoverDone(r, found))
  /\ WF_vars(\E r \in BagToSet(runs), ok \in BOOLEAN : RetryDone(r, ok))
  /\ WF_vars(\E r \in BagToSet(runs) : RetryDelay(r))
  /\ WF_vars(\E r \in BagToSet(runs), outcome \in {"success", "rejected", "throws"} :
               ApiPushDone(r, outcome))
  /\ WF_vars(\E o \in RefreshOutcomes : InitialRefresh(o))
  /\ WF_vars(\E o \in RefreshOutcomes : UpdateIntervalFire(o))
  /\ WF_vars(\E t \in BagToSet(postPush), o \in RefreshOutcomes : PostPushFire(t, o))

FairSpec == Spec /\ Fairness

(* --------------------------- refreshStatus alone ------------------------ *)
\* One refreshStatus call, whoever makes it, with the transports answering o.  The
\* history keeps the branch taken and the advertisement the radio returned.
StatusRefresh(o) ==
  /\ refreshStatus(o)
  /\ hist' = [hist EXCEPT
       !.transport = refreshStatusBranch,
       !.lastAdvert = IF refreshStatusBranch = "ble" /\ o.connected
                        THEN Obtained(o) ELSE @,
       !.lastCall = [stamp |-> ~@.stamp,
                     radioFailed |-> refreshStatusBranch = "ble" /\
                                       (~o.connected \/ ~ExpectedTag(o.advert)),
                     requests |-> StatusRequests(o),
                     errorLogged |-> ConnectionError(o),
                     throws |-> o.throws, statusCode |-> o.statusCode,
                     reading |-> o.reading]]
  /\ UNCHANGED <<family, device, handling, handlers, firmware, irdevice, Switch, latch, lockUpdateInProgress, debounceTimer, updateInterval,
                 postPush, runs, initialRefresh>>

\* the events the platform routes to a handler: a payload of the device, or a
\* malformed one (no object) on which the parse step throws
NoPayload == [status |-> "null", humidity |-> 0]
Events(payloads) ==
  {[malformed |-> FALSE, payload |-> p] : p \in payloads} \cup
    {[malformed |-> TRUE, payload |-> NoPayload]}

\* variant of the catch clause: the exception leaves the handler and the table entry
\* of the device is lost
catchEvent_Escapes(table, e) ==
  /\ handlers' = [handlers EXCEPT ![table] = FALSE]
  /\ hist' = [hist EXCEPT !.lastEvent = [stamp |-> ~@.stamp, table |-> table,
                                         malformed |-> TRUE, errorLogged |-> FALSE,
                                         payload |-> e.payload, threw |-> TRUE,
                                         repeated |-> FALSE]]

\* catch (e) { this.errorLog(`failed to handle ...`) } of an event handler
catchEvent(table, e) ==
  /\ UNCHANGED handlers
  /\ hist' = [hist EXCEPT !.lastEvent = [stamp |-> ~@.stamp, table |-> table,
                                         malformed |-> TRUE, errorLogged |-> TRUE,
                                         payload |-> e.payload, threw |-> TRUE,
                                         repeated |-> FALSE]]

\* the record r (characteristics or accessory.context) holds the values lm, bat, hs in
\* the fields the family of the device writes
Holds(r, lm, bat, hs) ==
  IF family = "Lock"
    THEN /\ r.LockTargetState = lm.LockTargetState
         /\ r.LockCurrentState = lm.LockCurrentState
         /\ r.ContactSensorState = bat.ContactSensorState
         /\ r.BatteryLevel = bat.BatteryLevel
         /\ r.StatusLowBattery = bat.StatusLowBattery
    ELSE r.CurrentRelativeHumidity = hs.CurrentRelativeHumidity

\* the try block of an event handler: the payload is stored, parsed and applied
tryEvent(table, e, lockParsed, batteryParsed, hubParsed) ==
  /\ ParseAndUpdate(lockParsed, batteryParsed, hubParsed)
  /\ UNCHANGED handlers
  /\ hist' = [hist EXCEPT !.lastEvent = [stamp |-> ~@.stamp, table |-> table,
                                         malformed |-> FALSE, errorLogged |-> FALSE,
                                         payload |-> e.payload, threw |-> @.threw,
                                         repeated |->
                                           /\ @.table = table /\ ~@.malformed
                                           /\ @.payload = e.payload
                                           /\ Holds(hk, lockParsed, batteryParsed, hubParsed)
                                           /\ Holds(context, lockParsed, batteryParsed,
                                                    hubParsed)]]

\* platform.webhookEventHandler[deviceId](context)
webhookEventHandler(e) ==
  /\ handlers.webhook
  /\ IF e.malformed
       THEN NothingApplied /\ catchEvent("webhook", e)
       ELSE tryEvent("webhook", e, parseStatusWebhook(WebhookContext(e.payload)), Battery,
                     HubparseStatusWebhook(WebhookContext(e.payload)))
  /\ UNCHANGED <<family, device, handling, failures, firmware, irdevice, Switch, latch,
                 lockUpdateInProgress, debounceTimer, updateInterval, postPush, runs,
                 initialRefresh>>

\* platform.bleEventHandler[bleMac](context): the advertisements routed by the address
\* of the device; the handler makes no model check
bleEventHandler(e) ==
  /\ handlers.ble
  /\ IF e.malformed
       THEN NothingApplied /\ catchEvent("ble", e)
       ELSE tryEvent("ble", e, BLEparseStatus(ServiceData(e.payload)),
                     BLEparseBattery(ServiceData(e.payload)),
                     HubBLEparseStatus(ServiceData(e.payload)))
  /\ UNCHANGED <<family, device, handling, failures, firmware, irdevice, Switch, latch,
                 lockUpdateInProgress, debounceTimer, updateInterval, postPush, runs,
                 initialRefresh>>

StatusNext ==
  \/ \E o \in RefreshOutcomes : StatusRefresh(o)
  \/ \E e \in Events(Readings) : webhookEventHandler(e)
  \/ \E e \in Events({a \in EventAdverts : ExpectedTag(a)}) : bleEventHandler(e)

StatusInit == Start(Configs) /\ irdevice.hubDeviceId = NoHubDeviceId

\* the status side of a device: refreshStatus calls, webhook events and radio events
\* in any order
StatusSpec == StatusInit /\ [][StatusNext]_vars

(* -------------------------- the error classifier ------------------------ *)
ClassifierNext == \E code \in StatusCodes : statusCode(code)

\* an irdevice whose statusCode method is called; the lock / hub side stays as made
ClassifierInit ==
  /\ Start({CHOOSE c \in Configs : c.connectionType = "Disabled" /\ ~c.offline})
  /\ ~handlers.ble
  /\ family = "Hub"
ClassifierSpec == ClassifierInit /\ [][ClassifierNext]_vars

(* ------------------------------ an irdevice ----------------------------- *)
IrNext ==
  \/ \E value \in OnSetValues[irdevice.otherDeviceType] : OthersOnSet(value)
  \/ \E b \in BagToSet(irdevice.pending),
          a \in [statusCode : {100, 200, 151, 171, 190}, throws : {FALSE}] \cup
                  {[statusCode |-> 0, throws |-> TRUE]} :
       OthersPushDone(b, a)

\* an Others accessory of any configuration: its OnSet handler and the
\* answers to its commands; the lock / hub side stays as made
IrInit ==
  /\ StartWith({CHOOSE c \in Configs : c.connectionType = "Disabled" /\ ~c.offline},
               {Others(c, NoHubDeviceId) : c \in IrConfigs})
  /\ ~handlers.ble
  /\ family = "Hub"
IrSpec == IrInit /\ [][IrNext]_vars

(* --------------------------- the firmware version ----------------------- *)
\* the constructor of an irdevice runs getDeviceContext
DeviceContext(fw, pv) ==
  /\ getDeviceContext(fw, pv)
  /\ UNCHANGED <<family, device, handling, handlers, failures, irdevice, Switch, latch, lockUpdateInProgress, LockMechanism, Battery,
                 context, hk, debounceTimer, updateInterval, postPush, runs, initialRefresh,
                 HumiditySensor, hist>>

\* a status body with a version is parsed by openAPIparseStatus
StatusVersion(v) ==
  /\ parseStatusVersion(v)
  /\ UNCHANGED <<family, device, handling, handlers, failures, irdevice, Switch, latch, lockUpdateInProgress, LockMechanism, Battery,
                 context, hk, debounceTimer, updateInterval, postPush, runs, initialRefresh,
                 HumiditySensor, hist>>

VersionNext ==
  \/ \E fw \in VersionInputs \cup {UndefinedVersion},
        pv \in {UndefinedVersion, <<"1", ".", "1">>} : DeviceContext(fw, pv)
  \/ \E v \in VersionInputs \cup {UndefinedVersion} : StatusVersion(v)

\* an irdevice as constructed, before getDeviceContext has run
VersionInit == ClassifierInit /\ irdevice.hubDeviceId = NoHubDeviceId

VersionSpec == VersionInit /\ [][VersionNext]_vars

(* --------------------------- the routing tables ------------------------- *)
\* the operations of a cloud lock: change requests, the push cycle, the refreshes, the
\* timers, and the handlers of both routing tables on well-formed and malformed events
RegistryNext ==
  \/ \E value \in {SECURED, UNSECURED} : LockTargetStateSet(value)
  \/ DebounceFire
  \/ \E r \in BagToSet(runs), outcome \in {"success", "rejected", "throws"} :
       ApiPushDone(r, outcome)
  \/ \E o \in RefreshOutcomes : InitialRefresh(o)
  \/ \E o \in RefreshOutcomes : UpdateIntervalFire(o)
  \/ \E t \in BagToSet(postPush), o \in RefreshOutcomes : PostPushFire(t, o)
  \/ Tick
  \/ \E e \in Events({r \in Readings : r.status = "unlocked"}) : webhookEventHandler(e)
  \/ \E e \in Events({a \in Adverts : ExpectedTag(a) /\ a.status = "locked"}) :
       bleEventHandler(e)

\* a cloud lock, with and without device.webhook and config.options.BLE
RegistryInit ==
  /\ Start({c \in AllConfigs : /\ c.connectionType = "OpenAPI"
                               /\ c.token /\ c.enableCloudService /\ ~c.offline
                               /\ c.maxRetries = DefaultMaxRetries})
  /\ family = "Lock"
  /\ context.LockTargetState = Undefined
  /\ irdevice.hubDeviceId = NoHubDeviceId
RegistrySpec == RegistryInit /\ [][RegistryNext]_vars

(* ---------------------- interleaved status handlers --------------------- *)
\* the characteristics Lock.updateHomeKitCharacteristics writes, in its order; each
\* write is an awaited updateCharacteristic call
LockCharacteristics ==
  <<"LockTargetState", "LockCurrentState", "ContactSensorState", "BatteryLevel",
    "StatusLowBattery">>

\* what the parser of the transport makes of the payload p
StatusParsed(table, p) ==
  CASE table = "webhook" ->
         [lm |-> parseStatusWebhook(WebhookContext(p)), bat |-> Battery]
    [] table = "ble" ->
         [lm |-> BLEparseStatus(ServiceData(p)), bat |-> BLEparseBattery(ServiceData(p))]
    [] OTHER ->
         [lm |-> openAPIparseStatus(StatusBody(p)),
          bat |-> openAPIparseBattery(StatusBody(p))]

\* variant of a handler: an event that arrives while another handler has not finished
\* is not parsed
EventReceived_Gated(table, p) ==
  /\ family = "Lock"
  /\ table \in DOMAIN handlers => handlers[table]
  /\ BagCardinality(handling) < MaxHandling
  /\ IF handling = EmptyBag
       THEN /\ LockMechanism' = StatusParsed(table, p).lm
            /\ Battery' = StatusParsed(table, p).bat
       ELSE UNCHANGED <<LockMechanism, Battery>>
  /\ handling' = handling (+) SetToBag({[table |-> table, next |-> 1]})
  /\ hist' = [hist EXCEPT
       !.lastEvent = [NoEvent EXCEPT !.stamp = ~hist.lastEvent.stamp, !.table = table,
                                     !.payload = p, !.threw = hist.lastEvent.threw],
       !.seen = @ \cup {StatusParsed(table, p).lm.LockCurrentState},
       !.overlap = handling # EmptyBag]
  /\ UNCHANGED <<family, device, handlers, failures, firmware, irdevice, Switch, latch,
                 lockUpdateInProgress, context, hk, debounceTimer, updateInterval,
                 postPush, runs, initialRefresh, HumiditySensor>>

\* a status payload reaches its handler (webhook event, radio event, or the result of
\* a cloud poll): it is stored and parsed into the fields of the device before the
\* handler first yields; the writes to HomeKit follow, one await each
EventReceived(table, p) ==
  /\ family = "Lock"
  /\ table \in DOMAIN handlers => handlers[table]
  /\ BagCardinality(handling) < MaxHandling
  /\ LockMechanism' = StatusParsed(table, p).lm
  /\ Battery' = StatusParsed(table, p).bat
  /\ handling' = handling (+) SetToBag({[table |-> table, next |-> 1]})
  /\ hist' = [hist EXCEPT
       !.lastEvent = [NoEvent EXCEPT !.stamp = ~hist.lastEvent.stamp, !.table = table,
                                     !.payload = p, !.threw = hist.lastEvent.threw],
       !.seen = @ \cup {StatusParsed(table, p).lm.LockCurrentState},
       !.overlap = handling # EmptyBag]
  /\ UNCHANGED <<family, device, handlers, failures, firmware, irdevice, Switch, latch,
                 lockUpdateInProgress, context, hk, debounceTimer, updateInterval,
                 postPush, runs, initialRefresh, HumiditySensor>>

\* the handler h resumes: its next updateCharacteristic call writes the field the
\* device holds now to the characteristic and to accessory.context
EventWrite(h) ==
  /\ LET f == LockCharacteristics[h.next]
         v == IF h.next <= 2 THEN LockMechanism[f] ELSE Battery[f]
     IN /\ hk' = [hk EXCEPT ![f] = v]
        /\ context' = [context EXCEPT ![f] = v]
  /\ handling' = (handling (-) SetToBag({h})) (+)
                   (IF h.next < Len(LockCharacteristics)
                      THEN SetToBag({[h EXCEPT !.next = @ + 1]}) ELSE EmptyBag)
  /\ UNCHANGED <<family, device, handlers, failures, firmware, irdevice, Switch, latch,
                 lockUpdateInProgress, LockMechanism, Battery, debounceTimer,
                 updateInterval, postPush, runs, initialRefresh, HumiditySensor, hist>>

\* status payloads of the three transports arrive in any order while the handlers of
\* earlier ones are still writing
InterleaveNext ==
  \/ \E s \in {"locked", "unlocked", "jammed"}, p \in Readings :
       EventReceived("webhook", [p EXCEPT !.status = s])
  \/ \E s \in {"locked", "unlocked", "jammed"},
          p \in {a \in EventAdverts : ExpectedTag(a) /\ a.tag[1] = BLEModelLock} :
       EventReceived("ble", [p EXCEPT !.status = s])
  \/ \E s \in {"locked", "unlocked", "jammed"}, b \in {9, 10}, p \in Readings :
       EventReceived("poll", [p EXCEPT !.status = s, !.battery = b])
  \/ \E h \in BagToSet(handling) : EventWrite(h)

InterleaveSpec == RegistryInit /\ [][InterleaveNext]_vars

(* ---------------------------- the latch button -------------------------- *)
\* the pending openAPIpushChanges(true) call of OnSet, and the setTimeout made when
\* the call has returned
NewLatchCall == [pc |-> "api", cmd |-> APICommand(TRUE, LockMechanism.LockTargetState),
                 remaining |-> 0]
LatchTimeout(l) == [l EXCEPT !.pc = "timer", !.cmd = "", !.remaining = LatchResetDelay]

\* the handler of a get of the On characteristic of the latch
OnGet == Switch.On

\* OnSet(value): with a true value openAPIpushChanges(true) is started and not
\* awaited (its test passes through LatchUnlock whatever the target is); then the
\* field is written and doLockUpdate.next() runs the tap and restarts debounceTime.
\* HomeKit keeps the value it has set as the value of the characteristic.
OnSet(value) ==
  /\ family = "Lock"
  /\ hist.nRequests < MaxRequests
  /\ latch' = IF value THEN latch (+) SetToBag({NewLatchCall}) ELSE latch
  /\ Switch' = [Switch EXCEPT !.On = value]
  /\ hk' = [hk EXCEPT !.On = value]
  /\ lockUpdateInProgress' = TRUE
  /\ debounceTimer' = <<DebounceMs>>
  /\ hist' = [hist EXCEPT !.nRequests = @ + 1,
                          !.owed = IF debounceTimer = <<>> THEN @ + 1 ELSE @]
  /\ UNCHANGED <<family, device, handling, handlers, failures, firmware, irdevice, LockMechanism, Battery, context, updateInterval, postPush, runs,
                 initialRefresh, HumiditySensor>>

\* openAPIpushChanges(true) of the latch call l settles: it never rejects, so the
\* then-branch of OnSet makes the timeout
LatchPushDone(l, outcome) ==
  /\ l.pc = "api"
  /\ latch' = (latch (-) SetToBag({l})) (+) SetToBag({LatchTimeout(l)})
  /\ CASE outcome = "success" ->
            updateHomeKitCharacteristics(LockMechanism, Battery) /\ UNCHANGED failures
       [] outcome = "rejected" -> UNCHANGED <<hk, context, failures>>
       [] outcome = "throws" -> apiError /\ context' = context /\ catchCloudError
  /\ UNCHANGED <<family, device, handling, handlers, firmware, irdevice, Switch, lockUpdateInProgress, LockMechanism, Battery, debounceTimer,
                 updateInterval, postPush, runs, initialRefresh, HumiditySensor, hist>>

\* variant of updateValue: the value goes through the set handler of the characteristic
updateValue_SetHandler(v) ==
  /\ hk' = [hk EXCEPT !.On = v]
  /\ Switch' = [Switch EXCEPT !.On = v]
  /\ lockUpdateInProgress' = TRUE
  /\ debounceTimer' = <<DebounceMs>>

\* Characteristic.updateValue on the On characteristic: the value is stored and
\* notified, the set handler is not called
updateValue(v) ==
  /\ hk' = [hk EXCEPT !.On = v]
  /\ UNCHANGED <<Switch, lockUpdateInProgress, debounceTimer>>

\* the timeout of the latch call l runs: updateValue(false)
LatchReset(l) ==
  /\ l.pc = "timer"
  /\ l.remaining <= 0
  /\ latch' = latch (-) SetToBag({l})
  /\ updateValue(FALSE)
  /\ UNCHANGED <<family, device, handling, handlers, failures, firmware, irdevice, LockMechanism, Battery, context, updateInterval, postPush, runs,
                 initialRefresh, HumiditySensor, hist>>

\* the handlers and callbacks of a cloud lock whose user presses the latch button only
LatchNext ==
  \/ \E value \in BOOLEAN : OnSet(value)
  \/ DebounceFire
  \/ \E r \in BagToSet(runs), outcome \in {"success", "rejected", "throws"} : ApiPushDone(r, outcome)
  \/ \E o \in RefreshOutcomes : InitialRefresh(o)
  \/ \E o \in RefreshOutcomes : UpdateIntervalFire(o)
  \/ \E t \in BagToSet(postPush), o \in RefreshOutcomes : PostPushFire(t, o)
  \/ Tick
  \/ \E l \in BagToSet(latch), outcome \in {"success", "rejected", "throws"} :
       LatchPushDone(l, outcome)
  \/ \E l \in BagToSet(latch) : LatchReset(l)

\* the lock with its latch button, its connection type being OpenAPI
LatchConfigs == {c \in Configs : c.connectionType = "OpenAPI"}
LatchInit ==
  Start(LatchConfigs) /\ family = "Lock" /\ irdevice.hubDeviceId = NoHubDeviceId /\ ~handlers.ble
LatchSpec == LatchInit /\ [][LatchNext]_vars

(* ------------------------- the radio retry budget ----------------------- *)
\* a lock with a radio, under every retry budget
RetryConfigs == {c \in AllConfigs : c.connectionType \in {"BLE", "BLE/OpenAPI"} /\
                                     c.webhook /\ c.enableCloudService /\ ~c.offline /\
                                     (c.connectionType = "BLE" => ~c.token)}
RetryInit ==
  Start(RetryConfigs) /\ family = "Lock" /\ irdevice.hubDeviceId = NoHubDeviceId /\ ~handlers.ble
RetrySpec == RetryInit /\ [][Next]_vars

(* ============================== properties ============================= *)
\* the command that carries the requested value
CommandFor(value) == IF value = SECURED THEN "lock" ELSE "unlock"

\* run r has a command on a transport
InFlight(r) == r.pc \in {"retry", "api"}

\* in this step a command of r was handed to a transport
SentNow(r) == InFlight(r) /\ CopiesIn(r, runs') > CopiesIn(r, runs)

\* in this step a pushChanges run returned to the subscriber of doLockUpdate
CycleEnds ==
  \/ /\ debounceTimer # <<>>
     /\ debounceTimer' = <<>>
     /\ \A r \in BagToSet(runs') : r.awaited => CopiesIn(r, runs') <= CopiesIn(r, runs)
  \/ \E r \in BagToSet(runs) : r.awaited /\ CopiesIn(r, runs') < CopiesIn(r, runs)

\* in this step the post-push subscription t called refreshStatus
Invoked(t) ==
  /\ BagCardinality(postPush') < BagCardinality(postPush)
  /\ CopiesIn(t, postPush') < CopiesIn(t, postPush)

\* in this step the refresh interval called refreshStatus
IntervalRefresh ==
  /\ updateInterval.remaining <= 0
  /\ updateInterval'.remaining > 0
  /\ ~updateInterval'.skipping

\* C1: every burst of LockTargetStateSet calls owes exactly one pushChanges run, made
\* when the debounce fires, and as long as no request came after the burst every
\* command a run sends is the one for the last value requested.
C1_OneRunLastValue ==
  [][/\ hist'.owed = (IF debounceTimer' = <<>> THEN 0 ELSE 1)
     /\ \A r \in BagToSet(runs') :
          SentNow(r) /\ r.last = hist.nRequests => r.cmd = CommandFor(hist.lastRequest)]_vars

\* C2: the refresh interval never calls refreshStatus at a tick where
\* lockUpdateInProgress is true.
C2_IntervalSkipsWhileUpdating ==
  [][IntervalRefresh => ~lockUpdateInProgress]_vars

\* C3: at no time do two runs have a command on a transport.
C3_OneCommandInFlight ==
  \A r \in BagToSet(runs) :
    InFlight(r) => CopiesIn(r, runs) = 1 /\ \A q \in BagToSet(runs) : InFlight(q) => q = r

\* C4: at no time is more than one post-push refresh pending.
C4_OnePostPushPending == BagCardinality(postPush) <= 1

\* C5: lockUpdateInProgress is true whenever a push on a transport (discovery, a radio
\* attempt, the cloud call) was started and has not finished.
C5_FlagCoversPush ==
  (\E r \in BagToSet(runs) : r.pc \in {"discover", "retry", "api"}) => lockUpdateInProgress

\* C6: every pushChanges run that returns leaves lockUpdateInProgress false, and when
\* requests stop the flag is eventually false and stays false.
C6_FlagReleased ==
  /\ [][CycleEnds => ~lockUpdateInProgress']_vars
  /\ <>[](~lockUpdateInProgress)

\* C6 witness: a request was made, its run has returned and the flag is false
C6_Witness ==
  /\ hist.nRequests > 0
  /\ debounceTimer = <<>>
  /\ postPush # EmptyBag
  /\ ~lockUpdateInProgress

\* C7: every pushChanges run that returns makes one post-push refresh subscription,
\* and every subscription eventually calls refreshStatus: none stays pending.
C7_PostPushRefreshHappens ==
  /\ [][CycleEnds => BagCardinality(postPush') = BagCardinality(postPush) + 1]_vars
  /\ <>[](postPush = EmptyBag)

\* C7 witness: a post-push subscription that found the flag true at 15 s is pending
\* after the flag was released
C7_Witness ==
  \E t \in BagToSet(postPush) :
    t.age >= PostPushRefreshDelay /\ t.remaining > 0 /\ ~lockUpdateInProgress

\* C8: a post-push subscription calls refreshStatus at most once, not before 15 s
\* have passed since pushChanges made it, and not while lockUpdateInProgress is true.
C8_PostPushOnceLateIdle ==
  /\ [](\A t \in BagToSet(postPush) : t.calls = 0)
  /\ [][\A t \in BagToSet(postPush) :
          Invoked(t) => ~lockUpdateInProgress /\ t.age >= PostPushRefreshDelay]_vars

\* C8 witness: a post-push subscription is due while lockUpdateInProgress is true
C8_Witness ==
  \E t \in BagToSet(postPush) : t.remaining <= 0 /\ lockUpdateInProgress

\* C9: refreshStatus consults, in this order of precedence: nothing but an error when
\* the cloud is a transport and the cloud service is disabled; the radio when the
\* device has it; the cloud poll when the device has it and a token exists; nothing.
C9_RefreshPrecedence ==
  hist.transport # "none" =>
    hist.transport =
      (IF device.connectionType \in {"OpenAPI", "BLE/OpenAPI"} /\ ~device.enableCloudService
         THEN "error"
       ELSE IF device.connectionType \in {"BLE", "BLE/OpenAPI"} THEN "ble"
       ELSE IF device.connectionType = "OpenAPI" /\ device.token THEN "api"
       ELSE "offline")

\* C9 witness: a device with radio and cloud whose cloud service is disabled was
\* refreshed
C9_Witness ==
  /\ device.connectionType = "BLE/OpenAPI"
  /\ ~device.enableCloudService
  /\ hist.transport # "none"

\* C10: an advertisement whose model / modelName is not the one of the device family
\* is never parsed and applied, for the lock and for the hub.
C10_MismatchNotApplied ==
  hist.lastAdvert.seen /\ ~hist.lastAdvert.expected => ~hist.lastAdvert.applied

\* C11: when a radio refresh fails (no radio connection, or an advertisement whose
\* model tag is not the one of the device), the same refreshStatus call asks the cloud
\* exactly when the connection type is BLE/OpenAPI and a token is configured;
\* otherwise no cloud request is made and the failure is logged as an error.
C11_RefreshFallback ==
  hist.lastCall.radioFailed =>
    IF device.connectionType = "BLE/OpenAPI" /\ device.token
      THEN hist.lastCall.requests = 1
      ELSE hist.lastCall.requests = 0 /\ hist.lastCall.errorLogged

\* in this step refreshStatus was called and asked the cloud, which answered a
CloudPolled(a) ==
  /\ a = hist'.lastCall
  /\ a.stamp # hist.lastCall.stamp
  /\ a.requests > 0
  /\ ~a.throws

\* C12: a cloud poll makes exactly one status request; an answer whose statusCode is
\* neither 100 nor 200 leaves every field of the device, every characteristic and the
\* context as they were; with 100 or 200 the body is parsed and applied.
C12_CloudPollFrame ==
  [][\A a \in {hist'.lastCall} :
       CloudPolled(a) =>
         /\ a.requests = 1
         /\ a.statusCode \notin {100, 200} =>
              UNCHANGED <<LockMechanism, Battery, HumiditySensor, hk, context>>
         /\ a.statusCode \in {100, 200} =>
              IF family = "Lock"
                THEN \E v \in {IF a.reading.status = "locked" THEN SECURED ELSE UNSECURED} :
                       /\ LockMechanism' = [LockTargetState |-> v, LockCurrentState |-> v]
                       /\ hk'.LockTargetState = v /\ hk'.LockCurrentState = v
                       /\ context'.LockTargetState = v /\ context'.LockCurrentState = v
                ELSE /\ HumiditySensor'.CurrentRelativeHumidity = a.reading.humidity
                     /\ hk'.CurrentRelativeHumidity = a.reading.humidity
                     /\ context'.CurrentRelativeHumidity = a.reading.humidity]_vars

\* C12 witness: the cloud answered a poll with a statusCode other than 100 and 200
\* after a status had been applied
C12_Witness ==
  /\ hist.lastCall.requests = 1
  /\ ~hist.lastCall.throws
  /\ hist.lastCall.statusCode \notin {100, 200}
  /\ hk.LockTargetState \in {SECURED, UNSECURED} \/ hk.CurrentRelativeHumidity \in {50, 100, 150}

\* in this step the debounce fired and the subscriber ran pushChanges
PushCycleRuns == debounceTimer # <<>> /\ debounceTimer' = <<>>

\* C13: when the push cycle of the lock runs while the requested LockTargetState
\* equals accessory.context.LockTargetState, no command is sent on any transport:
\* no discovery, radio attempt, cloud call or cloud fallback is started.
C13_NoChangeNoCommand ==
  [][PushCycleRuns /\ LockMechanism.LockTargetState = context.LockTargetState =>
       runs' = runs]_vars

\* C13 witness: on a device with a usable transport the last request asked for the
\* value the context already held, no status had arrived, and the cycle has run
C13_Witness ==
  /\ ~CloudDisabled /\ (BLE \/ HasToken)
  /\ hist.nRequests > 0
  /\ hist.lastRequest = context.LockTargetState
  /\ hk.LockTargetState = Undefined
  /\ debounceTimer = <<>>
  /\ postPush # EmptyBag
  /\ runs = EmptyBag

\* in this step a radio attempt of run r settled
Settles(r) == r.pc = "retry" /\ CopiesIn(r, runs') < CopiesIn(r, runs)
\* in this step run r went into the delay before its next attempt
Waits(r) ==
  \E d \in {[r EXCEPT !.pc = "delay", !.cmd = ""]} : CopiesIn(d, runs') > CopiesIn(d, runs)
\* in this step the push was reported as done (updateHomeKitCharacteristics) / as
\* failed (apiError)
ReportsSuccess ==
  /\ hk'.LockTargetState = LockMechanism.LockTargetState
  /\ context'.LockTargetState = LockMechanism.LockTargetState
ReportsFailure == hk'.LockTargetState = ErrorMarker /\ hk'.LockCurrentState = ErrorMarker

\* C14: a radio push makes at most maxRetries attempts, a delay lies between two
\* attempts, the loop stops at the first attempt that succeeds and reports success,
\* and failure is reported only after the last attempt of the budget failed.
C14_RetryBudget ==
  /\ [](\A r \in BagToSet(runs) : r.attempts <= device.maxRetries)
  /\ [][\A r \in BagToSet(runs) :
          Settles(r) =>
            \/ ReportsSuccess /\ ~Waits(r) /\ \A q \in BagToSet(runs') : ~SentNow(q)
            \/ Waits(r) /\ r.attempts < device.maxRetries /\ UNCHANGED <<hk, context>>
            \/ ReportsFailure /\ ~Waits(r) /\ r.attempts = device.maxRetries]_vars
  /\ [][\A q \in BagToSet(runs') :
          SentNow(q) /\ q.pc = "retry" /\ q.attempts > 1 =>
            \E d \in BagToSet(runs) :
              /\ d.pc = "delay" /\ d.attempts = q.attempts - 1
              /\ CopiesIn(d, runs') < CopiesIn(d, runs)]_vars

\* C14 witness: under a budget of 3 the first two attempts failed and the third is
\* on the radio
C14_Witness ==
  /\ device.maxRetries = 3
  /\ \E r \in BagToSet(runs) : r.pc = "retry" /\ r.attempts = 3

\* in this step the radio push failed: connectBLE gave no handle, or discover()
\* rejected, or the last attempt of the retry budget failed
ConnectFails ==
  /\ PushCycleRuns /\ BLE /\ ~CloudDisabled /\ Changed
  /\ \A q \in BagToSet(runs') : q.pc = "discover" => CopiesIn(q, runs') <= CopiesIn(q, runs)
RadioFails(r) ==
  /\ r.pc \in {"discover", "retry"}
  /\ CopiesIn(r, runs') < CopiesIn(r, runs)
  /\ ReportsFailure
  /\ \A q \in BagToSet(runs') :
       q.pc \in {"retry", "delay"} => CopiesIn(q, runs') <= CopiesIn(q, runs)
RadioPushFails == ConnectFails \/ \E r \in BagToSet(runs) : RadioFails(r)
\* the cloud calls that are pending
CloudCalls(b) == BagCardinality([r \in {q \in BagToSet(b) : q.pc = "api"} |-> CopiesIn(r, b)])

\* C15: when a radio push fails, the push is made over the cloud exactly once if the
\* connection type is BLE/OpenAPI and a token is configured, and not at all
\* otherwise; the cloud call of a fallback is never followed by another one.
C15_PushFallbackOnce ==
  /\ [][RadioPushFails =>
          CloudCalls(runs') = CloudCalls(runs) +
            (IF device.connectionType = "BLE/OpenAPI" /\ device.token THEN 1 ELSE 0)]_vars
  /\ [][\A r \in BagToSet(runs) :
          r.pc = "api" /\ CopiesIn(r, runs') < CopiesIn(r, runs) =>
            CloudCalls(runs') = CloudCalls(runs) - 1]_vars

\* C16: on a device whose cloud service is disabled while the cloud is one of its
\* transports, no user operation (a lock target change, a press of the latch button)
\* ever has a command on a transport.
C16_DisabledSendsNothing ==
  ~device.enableCloudService /\ device.connectionType \in {"OpenAPI", "BLE/OpenAPI"} =>
    /\ \A r \in BagToSet(runs) : ~InFlight(r)
    /\ \A l \in BagToSet(latch) : l.pc # "api"

\* C17: a get of the latch's On characteristic returns true right after OnSet(true)
\* has started the push, and returns false once every push of the latch has returned
\* (success, rejected status code or exception) and its 500 ms have passed.
C17_LatchReadsOff ==
  /\ [][BagCardinality(latch') > BagCardinality(latch) => OnGet']_vars
  /\ [](latch = EmptyBag => ~OnGet)

\* in this step the timeout of a latch call switched the button off
ResetStep == BagCardinality(latch') < BagCardinality(latch)

\* C18: the automatic reset of the latch button sends no command and starts no push
\* cycle: it leaves the runs, the latch calls, the debounce and lockUpdateInProgress
\* as they were.
C18_ResetIsSilent ==
  [][ResetStep =>
       /\ UNCHANGED <<runs, debounceTimer, lockUpdateInProgress, LockMechanism, Battery>>
       /\ \A l \in BagToSet(latch') : l.pc = "api" => CopiesIn(l, latch') <= CopiesIn(l, latch)
       /\ hist'.owed = hist.owed]_vars

\* C18 witness: the button was switched off by the timeout (the characteristic is
\* off while the field OnSet wrote is still on)
C18_Witness == ~hk.On /\ Switch.On /\ latch = EmptyBag

\* the line by which statusCode classified the code it was called with
Classified == irdevice.log[Len(irdevice.log)]

\* C19: every status code is logged at exactly one severity fixed by the (rewritten)
\* code alone: 100 and 200 at debug; 151, 152, 160, 161, 171, 190, 400, 401, 403, 404,
\* 406, 415, 422, 429 and 500 at error with the message of the code; every other
\* code at info as an unknown status code, never as an error.
C19_ClassifierTotal ==
  irdevice.log # <<>> =>
    LET line == Classified
        errors == {151, 152, 160, 161, 171, 190, 400, 401, 403, 404, 406, 415, 422, 429, 500}
    IN /\ \A i \in 1..(Len(irdevice.log) - 1) : irdevice.log[i].method = "debugErrorLog"
       /\ line.statusCode \in {100, 200} =>
            line.method = "debugLog" /\ line.message = statusMessages[line.statusCode]
       /\ line.statusCode \in errors =>
            line.method = "errorLog" /\ line.message = statusMessages[line.statusCode]
       /\ line.statusCode \notin errors \cup {100, 200} =>
            /\ line.method = "infoLog"
            /\ line.message = "Unknown statusCode: " \o ToString(line.statusCode)
                                 \o ", Submit Bugs Here: https://tinyurl.com/SwitchBotBug"

\* C19 witness: a code outside the table was classified
C19_Witness ==
  /\ irdevice.log # <<>>
  /\ Classified.input \notin DOMAIN statusMessages
  /\ Classified.method = "infoLog"

\* C20: code 171 is logged as code 161, 'Device is offline', exactly when hubDeviceId
\* is the device's own id or '000000000000'; otherwise it keeps the hub-offline
\* message; no other code is rewritten.
C20_OwnHubRewrite ==
  irdevice.log # <<>> =>
    LET line == Classified
        own == irdevice.hubDeviceId \in {irdevice.deviceId, "000000000000"}
    IN /\ line.input = 171 /\ own =>
            line.statusCode = 161 /\ line.message = "Device is offline"
       /\ line.input = 171 /\ ~own =>
            /\ line.statusCode = 171
            /\ line.message = "Hub Device is offline. Hub: " \o irdevice.hubDeviceId
       /\ line.input # 171 => line.statusCode = line.input

\* C20 witness: 171 was classified for a device whose hub id is the placeholder
C20_Witness ==
  /\ irdevice.log # <<>>
  /\ Classified.input = 171
  /\ irdevice.hubDeviceId = "000000000000"
  /\ irdevice.deviceId # "000000000000"

\* C21: whatever transport reported it (advertisement, cloud poll, webhook), the
\* humidity the hub holds, exposes and caches after a payload was applied lies in
\* 0..100: a reported 150 is applied as 100.
C21_HumidityClamped ==
  family = "Hub" /\ context.CurrentRelativeHumidity # Undefined =>
    /\ HumiditySensor.CurrentRelativeHumidity \in 0..100
    /\ context.CurrentRelativeHumidity \in 0..100
    /\ hk.CurrentRelativeHumidity \in (0..100) \cup {ErrorMarker}

\* the version the specification's normalization gives for the string s: one leading
\* V and everything from the first '-' are dropped, and the rest is joined with '.'
\* when s has no '.'
Normalized(s) ==
  LET rest == Replace(s)
  IN IF IncludesDot(s) THEN rest
     ELSE [i \in 1..(2 * Len(rest) - 1) |-> IF i % 2 = 1 THEN rest[(i + 1) \div 2] ELSE "."]

\* C22: wherever a firmware version is applied, the version written is the normalized
\* one ('V1.2-beta' gives '1.2', '123' gives '1.2.3'), and an empty or undefined
\* version gives '0.0.0'.
C22_VersionNormalized ==
  firmware.by # "none" =>
    /\ firmware.input \in {UndefinedVersion, <<>>} => firmware.FirmwareRevision = DefaultVersion
    /\ firmware.input \notin {UndefinedVersion, <<>>} /\ Replace(firmware.input) # <<>> =>
         firmware.FirmwareRevision = Normalized(firmware.input)

\* in this step a handler of the routing tables ran on the event ev
EventHandled(ev) == ev = hist'.lastEvent /\ ev.stamp # hist.lastEvent.stamp

\* what the handlers of the device make of a well-formed payload
EventValue(ev) ==
  IF family = "Lock" THEN IF ev.payload.status = "locked" THEN SECURED ELSE UNSECURED
  ELSE IF ev.table = "ble" THEN Min(ev.payload.humidity, 100)
  ELSE ev.payload.humidity

\* C23: an event handler (webhook or radio) lets no exception escape: when the parse
\* of an event throws, the error is logged for that event and nothing is applied, the
\* handler stays in the routing table, and an event handled afterwards is parsed and
\* applied.
C23_HandlerSurvives ==
  /\ [](hist.lastEvent.table # "none" => handlers[hist.lastEvent.table])
  /\ [][\A ev \in {hist'.lastEvent} :
          EventHandled(ev) =>
            /\ handlers' = handlers
            /\ ev.malformed =>
                 ev.errorLogged /\ UNCHANGED <<LockMechanism, Battery, HumiditySensor, hk, context>>
            /\ ~ev.malformed =>
                 IF family = "Lock"
                   THEN /\ hk'.LockCurrentState = EventValue(ev)
                        /\ hk'.LockTargetState = EventValue(ev)
                        /\ context'.LockCurrentState = EventValue(ev)
                   ELSE /\ hk'.CurrentRelativeHumidity = EventValue(ev)
                        /\ context'.CurrentRelativeHumidity = EventValue(ev)]_vars

\* C23 witness: after a malformed event was handled and logged, a well-formed event of
\* the same table was handled and its value is the exposed one
C23_Witness ==
  /\ hist.lastEvent.threw
  /\ hist.lastEvent.table = "webhook"
  /\ ~hist.lastEvent.malformed
  /\ hist.lastEvent.payload.status = "unlocked"
  /\ family = "Lock"
  /\ hk.LockCurrentState = UNSECURED

\* the presentation layer of the device carries the error marker
Marked(h) ==
  IF family = "Lock"
    THEN h.LockTargetState = ErrorMarker /\ h.LockCurrentState = ErrorMarker
    ELSE h.CurrentRelativeHumidity = ErrorMarker

\* in this step the catch clause of a cloud call (status request or command) ran
CloudThrew ==
  /\ hk' # hk
  /\ hk'.LockTargetState = ErrorMarker \/ hk'.CurrentRelativeHumidity = ErrorMarker

NoTransportRefresh ==
  /\ hist'.lastCall.stamp # hist.lastCall.stamp
  /\ hist'.transport = "offline"

\* C25: a refreshStatus call that finds no usable transport asks no transport, and the
\* state exposed after it is the state last confirmed before it: a lock state, or a
\* humidity, that an event had applied is still the exposed one.
C25_OfflineKeepsState ==
  [][NoTransportRefresh =>
       /\ hist'.lastCall.requests = 0
       /\ hk.LockCurrentState \in {SECURED, UNSECURED} =>
            /\ hk'.LockCurrentState = hk.LockCurrentState
            /\ hk'.LockTargetState = hk.LockTargetState
       /\ hk.CurrentRelativeHumidity # Undefined =>
            hk'.CurrentRelativeHumidity = hk.CurrentRelativeHumidity]_vars

\* in this step the irdevice sent a command to the cloud
IrPushed == irdevice'.sent # irdevice.sent

\* the command and the commandType the configuration c asks for, for On and for Off
ConfiguredCommand(c, On) ==
  CASE c.customize /\ On /\ c.customOn # "" -> c.customOn
    [] c.customize /\ ~On /\ c.customOff # "" -> c.customOff
    [] OTHER -> IF On THEN "turnOn" ELSE "turnOff"
ConfiguredType(c) ==
  CASE c.customize /\ c.commandType # "" -> c.commandType
    [] c.customize -> "customize"
    [] OTHER -> "command"

\* C26: a cloud push of an irdevice is one request {command, parameter: 'default',
\* commandType}: command is customOn / customOff when customization is enabled and the
\* field is not empty and turnOn / turnOff otherwise; commandType is the configured one
\* when customization is enabled and it is set, 'customize' when customization is
\* enabled without one, 'command' otherwise.
C26_PushBody ==
  /\ [](/\ commandOn = ConfiguredCommand(irdevice.config, TRUE)
        /\ commandOff = ConfiguredCommand(irdevice.config, FALSE)
        /\ commandType = ConfiguredType(irdevice.config))
  /\ [][IrPushed =>
          /\ irdevice'.sent = irdevice.sent + 1
          /\ irdevice'.pending = irdevice.pending (+) SetToBag({
               [command |-> ConfiguredCommand(irdevice.config, irdevice'.On = "true"),
                parameter |-> "default",
                commandType |-> ConfiguredType(irdevice.config)]})]_vars

\* C26 witness: a customized device without customOn and without commandType has
\* pushed On
C26_Witness ==
  /\ irdevice.config.customize
  /\ irdevice.config.customOn = ""
  /\ irdevice.config.commandType = ""
  /\ irdevice.On = "true"
  /\ [command |-> "turnOn", parameter |-> "default", commandType |-> "customize"]
       \in BagToSet(irdevice.pending)

\* C27: maxRetries and delayBetweenRetries are the device-level value whenever the
\* device configuration provides one (0 included; the delay is configured in seconds
\* and held in milliseconds), else the platform-level value when provided, else 2 and
\* 3000 ms; the resolved values never change.
C27_RateResolved ==
  LET c == irdevice.config IN
    /\ irdevice.rate.deviceMaxRetries =
         (IF c.maxRetries # <<>> THEN c.maxRetries[1]
          ELSE IF c.platformMaxRetries # <<>> THEN c.platformMaxRetries[1]
          ELSE 2)
    /\ irdevice.rate.deviceDelayBetweenRetries =
         (IF c.delayBetweenRetries # <<>> THEN c.delayBetweenRetries[1] * 1000
          ELSE IF c.platformDelayBetweenRetries # <<>> THEN c.platformDelayBetweenRetries[1]
          ELSE 3000)

\* in this step the cloud answered a command of the irdevice with a status code other
\* than 100 and 200
IrRejected ==
  /\ irdevice'.lastPush.stamp # irdevice.lastPush.stamp
  /\ ~irdevice'.lastPush.throws
  /\ irdevice'.lastPush.statusCode \notin {100, 200}

\* C28: a cloud push answered with a status code other than 100 and 200 is classified
\* and logged, sends no further command (the request is over and none is made), and
\* leaves the characteristics of the device, its cached context and its On field as
\* they were.
C28_RejectedPushFrame ==
  [][IrRejected =>
       /\ irdevice'.log # <<>>
       /\ irdevice'.log[Len(irdevice'.log)].input = irdevice'.lastPush.statusCode
       /\ irdevice'.log[Len(irdevice'.log)].method \in {"errorLog", "infoLog"}
       /\ irdevice'.sent = irdevice.sent
       /\ BagCardinality(irdevice'.pending) = BagCardinality(irdevice.pending) - 1
       /\ irdevice'.hk = irdevice.hk
       /\ irdevice'.context = irdevice.context
       /\ irdevice'.On = irdevice.On]_vars

\* C28 witness: a command was answered with 190 after an earlier one had been applied
C28_Witness ==
  /\ irdevice.lastPush.statusCode = 190
  /\ irdevice.hk.On \in {"true", "false"}
  /\ irdevice.log # <<>>

\* the step leaves the field f of the lock, and its exposed and cached value, as they
\* were: the value written is the one the device holds, and a characteristic that
\* showed a value shows the same value
Kept(f) ==
  /\ Battery'[f] = Battery[f]
  /\ hk'[f] = Battery[f]
  /\ context'[f] = Battery[f]
  /\ hk[f] \notin {Undefined, ErrorMarker} => hk'[f] = hk[f]

\* C29: a payload that does not report a field leaves the exposed value of the field:
\* a webhook event of the lock changes the lock state only and leaves battery level,
\* low-battery status and contact state; an advertisement without a battery value
\* leaves battery level and low-battery status.
C29_UnreportedFieldsKept ==
  [][\A ev \in {hist'.lastEvent} :
       EventHandled(ev) /\ ~ev.malformed /\ family = "Lock" =>
         /\ ev.table = "webhook" =>
              Kept("BatteryLevel") /\ Kept("StatusLowBattery") /\ Kept("ContactSensorState")
         /\ ev.table = "ble" /\ ev.payload.battery = <<>> =>
              Kept("BatteryLevel") /\ Kept("StatusLowBattery")]_vars

\* C30: applying a value is idempotent.  Whatever was exposed before, the handling of
\* an event leaves every written characteristic and its accessory.context entry at the
\* value of the device's field, and an event that applies the values the event before
\* it applied and left exposed changes no characteristic and no context entry.
C30_ApplyIdempotent ==
  [][\A ev \in {hist'.lastEvent} :
       EventHandled(ev) /\ ~ev.malformed =>
         /\ Holds(hk', LockMechanism', Battery', HumiditySensor')
         /\ Holds(context', LockMechanism', Battery', HumiditySensor')
         /\ ev.repeated => hk' = hk /\ context' = context]_vars

\* a lock whose radio event with a low battery and an open door was applied to
\* characteristics and context entries that the same event had already left
C30_Witness ==
  /\ family = "Lock"
  /\ hist.lastEvent.repeated
  /\ hist.lastEvent.table = "ble"
  /\ hk.BatteryLevel = 5 /\ context.BatteryLevel = 5
  /\ hk.ContactSensorState = 1 /\ context.ContactSensorState = 1
  /\ hk.LockCurrentState = UNSECURED /\ context.LockCurrentState = UNSECURED

C32_PendingRequestKept ==
  [][debounceTimer # <<>> /\ debounceTimer' = <<>> =>
       LockMechanism.LockTargetState = hist.lastRequest]_vars

\* the value v is the off / inactive / closed / secured value of the display type
OffValue(type, v) ==
  CASE type \in {"Switch", "Outlet"} -> v = FALSE
    [] type = "GarageDoor" -> v = 1
    [] type = "Lock" -> v = SECURED
    [] OTHER -> v = 0

C34_LatchSendsUnlockOnly ==
  /\ [](\A r \in BagToSet(runs) : ~InFlight(r))
  /\ [](\A l \in BagToSet(latch) : l.pc = "api" => l.cmd = "unlock")
  /\ [][hist'.nRequests # hist.nRequests =>
          BagCardinality(latch') = BagCardinality(latch) + (IF Switch'.On THEN 1 ELSE 0)]_vars

\* C35: status handlers that interleave.  Once no handler is left, every
\* characteristic and context entry equals the field of the device, and the lock state
\* is the one the most recently received payload reported; while handlers run, the
\* lock state exposed is one that some received payload reported.
C35_LastEventWins ==
  /\ handling = EmptyBag /\ hist.lastEvent.table # "none" =>
       /\ Holds(hk, LockMechanism, Battery, HumiditySensor)
       /\ Holds(context, LockMechanism, Battery, HumiditySensor)
       /\ hk.LockCurrentState = EventValue(hist.lastEvent)
       /\ hk.LockTargetState = EventValue(hist.lastEvent)
  /\ hk.LockCurrentState \in hist.seen \cup {Undefined}
  /\ hk.LockTargetState \in hist.seen \cup {Undefined}

\* C35 witness: a radio event reporting unlocked arrived while the handler of an
\* earlier payload reporting locked was still writing; both handlers have finished
C35_Witness ==
  /\ handling = EmptyBag
  /\ hist.overlap
  /\ hist.seen = {SECURED, UNSECURED}
  /\ hist.lastEvent.table = "ble"
  /\ hk.LockCurrentState = UNSECURED
  /\ hk.BatteryLevel = 5

\* C36: every parser of a lock status sets LockTargetState and LockCurrentState to the
\* same value, SECURED when the reported state is locked and UNSECURED for every other
\* state, and the parsers of the radio, the cloud poll and the webhook give the same
\* value for the same state of the lock.
C36_ParsersAgree ==
  /\ \A s \in {"locked", "unlocked", "jammed"}, r \in Readings, a \in Adverts :
       LET value == IF s = "locked" THEN SECURED ELSE UNSECURED
           ble == BLEparseStatus(ServiceData([a EXCEPT !.status = s]))
           api == openAPIparseStatus(StatusBody([r EXCEPT !.status = s]))
           web == parseStatusWebhook(WebhookContext([r EXCEPT !.status = s]))
       IN /\ ble = [LockCurrentState |-> value, LockTargetState |-> value]
          /\ api = ble
          /\ web = ble
  /\ hist.lastEvent.table # "none" =>
       /\ LockMechanism.LockTargetState = LockMechanism.LockCurrentState
       /\ LockMechanism.LockCurrentState = EventValue(hist.lastEvent)

\* C36 witness: after a payload reporting locked, the webhook reported a jammed lock
\* and both fields are UNSECURED
C36_Witness ==
  /\ hist.lastEvent.table = "webhook"
  /\ hist.lastEvent.payload.status = "jammed"
  /\ hist.seen = {SECURED, UNSECURED}
  /\ LockMechanism.LockTargetState = UNSECURED
  /\ LockMechanism.LockCurrentState = UNSECURED

\* C37: in every state of a lock that started from the default battery values, the
\* field StatusLowBattery is BATTERY_LEVEL_LOW (1) exactly when the field BatteryLevel
\* is below 10, whatever payloads of the radio, the cloud poll and the webhook were
\* parsed.
C37_LowBatteryIffBelowTen ==
  family = "Lock" => (Battery.StatusLowBattery = 1 <=> Battery.BatteryLevel < 10)

\* C37 witness: a cloud poll reported a battery of 9, and a webhook event was parsed
\* after it
C37_Witness ==
  /\ hist.lastEvent.table = "webhook"
  /\ Battery.BatteryLevel = 9
  /\ Battery.StatusLowBattery = 1

\* C38: the radio push and the cloud push send the same command for the same
\* LockTargetState: lock when it is SECURED and unlock when it is UNSECURED, and the
\* command a push cycle hands to either transport is the one for the target the
\* device holds.
C38_TransportsSameCommand ==
  /\ [](\A target \in {SECURED, UNSECURED} :
          /\ BLECommand(target) = APICommand(FALSE, target)
          /\ BLECommand(target) = "lock" <=> target = SECURED
          /\ BLECommand(target) = "unlock" <=> target = UNSECURED)
  /\ [][\A r \in BagToSet(runs') :
          SentNow(r) => r.cmd = CommandFor(LockMechanism.LockTargetState)]_vars

\* C38 witness: the radio attempts of an unlock request have failed and the cloud
\* fallback has the same command on its way
C38_Witness ==
  /\ LockMechanism.LockTargetState = UNSECURED
  /\ \E r \in BagToSet(runs) : r.pc = "api" /\ r.attempts > 0 /\ r.cmd = "unlock"

\* C39: firmware version normalization is idempotent: the version getDeviceContext
\* stores in the accessory context, read back and normalized again at the next start,
\* comes out unchanged, for every version string over 'V', '-', '.' and digits.
C39_NormalizeIdempotent ==
  firmware.by = "getDeviceContext" => deviceVersion(firmware.version) = firmware.version

====
